---- MODULE Spec2Model ----
(***************************************************************************)
(* Model of the Hades_FT futures-signal bot (src/app): the scan loop that  *)
(* creates tiered base signals, the per-subscriber derivation, the push    *)
(* eligibility filter, the view-signals handler, and the subscription /    *)
(* referral reward state machine.                                          *)
(*                                                                         *)
(* Time is the UTC clock in minutes.  Prices are integers in units of      *)
(* 0.0001 (the code rounds every price to 4 decimals).  A nullable field   *)
(* (Python None) holds the value None == -1.                               *)
(***************************************************************************)
EXTENDS Integers, Sequences, FiniteSets, TLC

VARIABLES
    now,            \* datetime.utcnow(), in minutes
    users,          \* users collection: user_id -> document
    signals,        \* signals collection (BaseSignal documents)
    user_signals,   \* user_signals collection (SubscriberSignal documents)
    referrals,      \* referrals collection (ReferralRecord documents)
    next_oid,       \* next MongoDB ObjectId to be handed out
    scanner,        \* position and locals of scan_market_async
    handler,        \* position and locals of the running handle_view_signals
    pushes,         \* alerts sent by notify_new_signal_alert
    last_derive,    \* last direct call of generate_user_signal and its outcome
    last_create,    \* last call of create_base_signal and its outcome
    check_log,      \* last direct call of check_ref_rewards and its outcome
    db_strict,      \* the database rejects an update naming a path twice
    register_log,   \* last direct call of register_valid_referral and its outcome
    strategy_log,   \* last call of mtf_strategy: the rows it read and its result
    writer,         \* position of a create_base_signal between its two writes
    push_log,       \* last run of notify_new_signal_alert's send loop
    scan_loop,      \* scan_market_async: position, symbols done, failures met
    sched_loop,     \* scheduler_loop: position and errors_in_row
    workers,        \* handler calls in flight, each with its position and locals
    start_log,      \* last /start handled: who sent it, its argument, what was stored
    chain,          \* call stack of an activation followed call by call
    purge_log       \* last run of cleanup_old_signals and what it deleted

vars == <<now, users, signals, user_signals, referrals, next_oid, scanner,
          handler, pushes, last_create, last_derive, check_log, db_strict,
                   register_log, strategy_log, writer, push_log, scan_loop,
                   sched_loop, workers, start_log, chain, purge_log>>

None == -1

(***************************************************************************)
(* Program constants                                                       *)
(***************************************************************************)
PLAN_FREE == "free"
PLAN_PLUS == "plus"
PLAN_PREMIUM == "premium"
Plans == {PLAN_FREE, PLAN_PLUS, PLAN_PREMIUM}

DEDUP_MINUTES == 10
TELEGRAM_SIGNAL_COOLDOWN_MINUTES == 15
SCAN_INTERVAL_MINUTES == 5           \* SCAN_INTERVAL_SECONDS = 300
SCAN_ERROR_SLEEP_MINUTES == 1        \* asyncio.sleep(60)
MIN_CANDIDATES == 3
DayMinutes == 1440
TRIAL_DAYS == 7
PLAN_DURATION_DAYS == 30

LEVERAGE_PROFILES == <<"conservador", "moderado", "agresivo">>
TIMEFRAME_TO_MINUTES == [tf \in {"5M", "15M", "1H"} |->
                            IF tf = "5M" THEN 5 ELSE IF tf = "15M" THEN 15 ELSE 60]
ScanTimeframes == <<"5M", "15M", "1H">>

ADMIN_USER_IDS == {1}

(***************************************************************************)
(* Bounds of the model                                                     *)
(***************************************************************************)
NumSubscribers == 2      \* user ids 1..NumSubscribers in the signal specifications
TickMinutes == 5         \* clock step of the signal specifications
MaxNow == 25             \* the clock stops here in the signal specifications
AccessEnd == 12          \* instant at which the initial plans / trials run out
MaxCycleMinutes == 5     \* longest time one pass of the scan loop takes
MaxViewMinutes == 5      \* longest time one run of the view handler takes
MaxOid == 4              \* direct calls stop once this many documents exist
NumRefUsers == 2         \* user ids 1..NumRefUsers in the referral specification
RefTickDays == 20        \* clock step of the referral specifications, in days
MaxRefDays == 45         \* the clock stops here in the referral specifications
MaxPaidDays == 30        \* no activation of a plan that has more days than this left
MaxPremiumValid == 7     \* largest premium counter a drawn referrer starts with
\* SCHEDULER_BATCH_SIZE (100 unless the environment sets it), scaled to the
\* number of users of the model
BATCH_SIZE == 1
MaxClose == 5               \* largest last close of a drawn 5m frame
NumPushUsers == 3           \* subscribers of the send loop's store
MaxCycles == 2              \* cycles of the scan loop that are followed
MaxIterations == 8          \* successful iterations of the maintenance loop
NumContactUsers == 3        \* user ids 1..NumContactUsers that send /start
NumExpiryUsers == 3         \* users of the expiry specification
NumChainUsers == 3          \* users of the activation cascade
MaxCalls == 16              \* calls of one cascade that are followed
MaxPurgeDays == 8           \* the clock stops here in the purge specification

UserIds == 1..NumSubscribers
Symbols == <<"BTCUSDT", "ETHUSDT", "SOLUSDT", "XRPUSDT">>

PriceOf(symbol) ==
    IF symbol = "BTCUSDT" THEN 500000000
    ELSE IF symbol = "ETHUSDT" THEN 30000000
    ELSE IF symbol = "SOLUSDT" THEN 1000000 ELSE 5000

Max(a, b) == IF a >= b THEN a ELSE b
Abs(a) == IF a >= 0 THEN a ELSE -a

(***************************************************************************)
(* app/config.py, app/models.py                                            *)
(***************************************************************************)
is_admin(user_id) == user_id \in ADMIN_USER_IDS

is_trial_active(user) ==
    IF user.trial_end = None THEN FALSE ELSE user.trial_end >= now

is_plan_active(user) ==
    IF user.plan_end = None THEN FALSE ELSE user.plan_end >= now

has_access(user) == is_plan_active(user) \/ is_trial_active(user)

SubscriberDoc(plan, plan_end, trial_end) ==
    [plan |-> plan, trial_end |-> trial_end, plan_end |-> plan_end,
     referred_by |-> None, ref_plus_valid |-> 0, ref_premium_valid |-> 0,
     ref_plus_total |-> None, ref_premium_total |-> None]

new_user(referred_by) ==
    [plan |-> PLAN_FREE, trial_end |-> now + TRIAL_DAYS * DayMinutes,
     plan_end |-> None, referred_by |-> referred_by,
     ref_plus_valid |-> 0, ref_premium_valid |-> 0,
     ref_plus_total |-> None, ref_premium_total |-> None]

\* user.get("ref_plus_total", 0): the totals are absent until first counted
Total(count) == IF count = None THEN 0 ELSE count

activate_planFromNow(user, plan, days) ==
    [user EXCEPT !.plan_end = now + days * DayMinutes, !.plan = plan,
                 !.trial_end = None]
activate_plan(user, plan, days) ==
    [user EXCEPT
        !.plan_end = IF user.plan_end # None /\ user.plan_end > now
                     THEN user.plan_end + days * DayMinutes
                     ELSE now + days * DayMinutes,
        !.plan = plan,
        !.trial_end = None]


(***************************************************************************)
(* Arithmetic on 4-decimal prices: round(val * num / den, 4)               *)
(***************************************************************************)
MulRound(val, num, den) ==
    (val \div den) * num + ((val % den) * num + den \div 2) \div den

(***************************************************************************)
(* app/signals.py: utilities and gates                                     *)
(***************************************************************************)
RECURSIVE SeqMax(_)
SeqMax(s) == IF s = <<>> THEN 0 ELSE Max(Head(s), SeqMax(Tail(s)))

calculate_signal_validityFirst(timeframes) ==
    IF timeframes = <<>> THEN 15 ELSE TIMEFRAME_TO_MINUTES[timeframes[1]]
calculate_signal_validity(timeframes) ==
    IF timeframes = <<>> THEN 15
    ELSE SeqMax([i \in 1..Len(timeframes) |-> TIMEFRAME_TO_MINUTES[timeframes[i]]])

calculate_entry_zone(entry) ==
    [low |-> MulRound(entry, 9985, 10000), high |-> MulRound(entry, 10015, 10000)]

\* since = datetime.utcnow() - timedelta(minutes=...)
SinceWrongSign(minutes) == now + minutes
Since(minutes) == now - minutes

recent_duplicate_exists(symbol, direction, visibility) ==
    \E s \in signals :
        /\ s.symbol = symbol
        /\ s.direction = direction
        /\ s.visibility = visibility
        /\ s.created_at >= Since(DEDUP_MINUTES)

\* symbol = "" is the call without argument (query on created_at alone)
telegram_signal_blockedNever(symbol) == FALSE
telegram_signal_blockedAnySymbol(symbol) ==
    \E s \in signals : s.created_at >= Since(TELEGRAM_SIGNAL_COOLDOWN_MINUTES)
telegram_signal_blocked(symbol) ==
    \E s \in signals :
        /\ s.created_at >= Since(TELEGRAM_SIGNAL_COOLDOWN_MINUTES)
        /\ (symbol # "" => s.symbol = symbol)

(***************************************************************************)
(* app/signals.py: generate_user_signal                                    *)
(*                                                                         *)
(* random.Random(int(sha256(f"{_id}_{user_id}"), 16)) is a deterministic   *)
(* stream fixed by the pair (_id, user_id): Seed is injective on the pair  *)
(* and Draw(seed, k) is the k-th rnd.uniform(0, 1) of that stream, in      *)
(* thousandths.  secrets.token_hex(4) is not seeded: every call returns a  *)
(* token no earlier call returned, named here by the number of the call's  *)
(* inserted document.                                                      *)
(***************************************************************************)
Seed(oid, user_id) == oid * 64 + user_id
Draw(seed, k) == (seed * 389 + k * 211 + 97) % 1000

\* round(rnd.uniform(val * (1 - pct), val * (1 + pct)), 4), pct in 1/10000
vary(seed, k, val, pct) ==
    LET lo == MulRound(val, 10000 - pct, 10000)
        hi == MulRound(val, 10000 + pct, 10000)
    IN  lo + MulRound(hi - lo, Draw(seed, k), 1000)

\* existing = user_signals_collection().find_one({user_id, symbol,
\*                "telegram_valid_until": {"$gt": now}})  (natural order)
LiveUserSignals(user_id, symbol) ==
    {r \in user_signals :
        /\ r.user_id = user_id
        /\ r.symbol = symbol
        /\ r.telegram_valid_until > now}

FirstOf(docs) == CHOOSE r \in docs : \A q \in docs : r.id <= q.id

\* the document generate_user_signal builds and inserts when nothing is cached
Derive(base, user_id, oid, fp) ==
    LET seed == Seed(base.id, user_id)
        entry == base.entry_price
        long == base.direction = "LONG"
        sl_base == MulRound(entry, IF long THEN 99 ELSE 101, 100)
        tp1_base == MulRound(entry, IF long THEN 101 ELSE 99, 100)
        tp2_base == MulRound(entry, IF long THEN 102 ELSE 98, 100)
    IN  [id |-> oid, user_id |-> user_id, signal_id |-> base.id,
         symbol |-> base.symbol, direction |-> base.direction,
         entry_price |-> vary(seed, 0, entry, 5),
         profiles |-> [i \in 1..Len(LEVERAGE_PROFILES) |->
            [stop_loss |-> vary(seed, 3 * i - 2, sl_base, 10),
             take_profits |-> <<vary(seed, 3 * i - 1, tp1_base, 10),
                                vary(seed, 3 * i, tp2_base, 10)>>]],
         created_at |-> now, valid_until |-> base.valid_until,
         telegram_valid_until |-> base.telegram_valid_until,
         fingerprint |-> fp, visibility |-> base.visibility]

\* generate_user_signal(base_signal, user_id): the returned document and
\* whether it was inserted
generate_user_signalNoCache(base, user_id, oid, fp) ==
    [doc |-> Derive(base, user_id, oid, fp), inserted |-> TRUE]
generate_user_signal(base, user_id, oid, fp) ==
    IF LiveUserSignals(user_id, base.symbol) # {}
    THEN [doc |-> FirstOf(LiveUserSignals(user_id, base.symbol)), inserted |-> FALSE]
    ELSE [doc |-> Derive(base, user_id, oid, fp), inserted |-> TRUE]

(***************************************************************************)
(* app/signals.py: generate_user_signal_for_plan, create_base_signal       *)
(***************************************************************************)
\* the users for whom the fan-out derives and inserts a record
FanOutTargets(base) ==
    {u \in DOMAIN users :
        /\ ~(users[u].plan_end # None /\ users[u].plan_end < now)
        /\ (is_admin(u) \/ users[u].plan = base.visibility)
        /\ LiveUserSignals(u, base.symbol) = {}}

RankIn(u, S) == Cardinality({v \in S : v < u})

token_hex(oid) == oid

FanOut(base, first_oid) ==
    {Derive(base, u, first_oid + RankIn(u, FanOutTargets(base)),
            token_hex(first_oid + RankIn(u, FanOutTargets(base)))) :
        u \in FanOutTargets(base)}

BaseSignalDoc(oid, symbol, direction, entry_price, stop_loss, take_profits, visibility) ==
    [id |-> oid, symbol |-> symbol, direction |-> direction,
     entry_price |-> entry_price, stop_loss |-> stop_loss,
     take_profits |-> take_profits, visibility |-> visibility,
     created_at |-> now,
     valid_until |-> now + calculate_signal_validity(ScanTimeframes),
     telegram_valid_until |-> now + TELEGRAM_SIGNAL_COOLDOWN_MINUTES,
     entry_zone |-> calculate_entry_zone(entry_price)]

\* create_base_signal: the store it leaves and whether a signal was returned
create_base_signal(symbol, direction, entry_price, stop_loss, take_profits, visibility) ==
    IF telegram_signal_blocked(symbol)
    THEN [ok |-> FALSE, signals |-> signals, user_signals |-> user_signals,
          next_oid |-> next_oid]
    ELSE LET base == BaseSignalDoc(next_oid, symbol, direction, entry_price,
                                   stop_loss, take_profits, visibility)
         IN  [ok |-> TRUE, signals |-> signals \cup {base},
              user_signals |-> user_signals \cup FanOut(base, next_oid + 1),
              next_oid |-> next_oid + 1 + Cardinality(FanOutTargets(base))]


(***************************************************************************)
(* app/notifier.py                                                         *)
(***************************************************************************)
_eligible_users_for_alertByPlanOnly(signal_visibility) ==
    {u \in DOMAIN users :
        (has_access(users[u]) \/ is_admin(u)) /\ users[u].plan = signal_visibility}
_eligible_users_for_alertNoAccessCheck(signal_visibility) ==
    {u \in DOMAIN users :
        IF is_admin(u) THEN signal_visibility = PLAN_PREMIUM
        ELSE users[u].plan = signal_visibility}
_eligible_users_for_alert(signal_visibility) ==
    {u \in DOMAIN users :
        /\ ~(~has_access(users[u]) /\ ~is_admin(u))
        /\ IF is_admin(u) THEN signal_visibility = PLAN_PREMIUM
           ELSE users[u].plan = signal_visibility}

\* notify_new_signal_alert: one bot.send_message per eligible user
notify_new_signal_alert(signal_visibility) ==
    {[user_id |-> u, visibility |-> signal_visibility, at |-> now] :
        u \in _eligible_users_for_alert(signal_visibility)}

(***************************************************************************)
(* app/scanner.py: scan_market_async                                       *)
(***************************************************************************)
NoResult == [direction |-> "NONE", score |-> 0]
\* mtf_strategy of one symbol: a breakout with the ADX bonus
\* (35 + 25 + 30 + 5), or a pullback without it (35 + 25 + 25)
Long95 == [direction |-> "LONG", score |-> 95]
Short85 == [direction |-> "SHORT", score |-> 85]

(***************************************************************************)
(* app/strategy.py: the evaluator.  It reads the last row of each of the   *)
(* three frames after add_indicators; an indicator whose window is longer  *)
(* than the frame is NaN, and every comparison with NaN is false.          *)
(***************************************************************************)
NaN == -2
ADX_MIN_TREND == 25
MAX_SCORE == 100

Min(a, b) == IF a < b THEN a ELSE b
IsNumber(x) == x # NaN
Gt(a, b) == IsNumber(a) /\ IsNumber(b) /\ a > b
Ge(a, b) == IsNumber(a) /\ IsNumber(b) /\ a >= b
Lt(a, b) == IsNumber(a) /\ IsNumber(b) /\ a < b
Le(a, b) == IsNumber(a) /\ IsNumber(b) /\ a <= b

market_has_strengthAlways(last) == TRUE
market_has_strength(last) == Ge(last.adx, ADX_MIN_TREND)

trend_direction(last) ==
    IF Gt(last.close, last.ema_200) THEN "LONG"
    ELSE IF Lt(last.close, last.ema_200) THEN "SHORT"
    ELSE "NONE"

\* last["volume"] < last["vol_ma"] * 1.5, in halves
breakout_confirmation(last, direction) ==
    IF IsNumber(last.vol_ma) /\ 2 * last.volume < 3 * last.vol_ma THEN FALSE
    ELSE IF direction = "LONG" THEN Gt(last.close, last.bb_high)
    ELSE Lt(last.close, last.bb_low)

pullback_confirmation(last, direction) ==
    IF direction = "LONG"
    THEN /\ Ge(last.close, last.bb_mid)
         /\ Gt(last.close, last.ema_200)
         /\ Ge(last.adx, ADX_MIN_TREND)
    ELSE /\ Le(last.close, last.bb_mid)
         /\ Lt(last.close, last.ema_200)
         /\ Ge(last.adx, ADX_MIN_TREND)

\* mtf_strategy on the last rows of the 1h, 15m and 5m frames; None is NoResult
mtf_strategy(last_1h, last_15m, last_5m) ==
    IF ~market_has_strength(last_1h) THEN NoResult
    ELSE LET direction == trend_direction(last_1h)
         IN  IF direction = "NONE" THEN NoResult
             ELSE IF ~market_has_strength(last_15m) THEN NoResult
             ELSE LET is_breakout == breakout_confirmation(last_5m, direction)
                      is_pullback == pullback_confirmation(last_5m, direction)
                      setup == IF is_breakout THEN 30 ELSE 25
                      bonus == IF Ge(last_5m.adx, 35) THEN 5 ELSE 0
                      score == 35 + 25 + setup + bonus
                  IN  IF ~(is_breakout \/ is_pullback) THEN NoResult
                      ELSE [direction |-> direction,
                            entry_price |-> last_5m.close,
                            score |-> Max(0, Min(score, MAX_SCORE)),
                            components |->
                               <<"trend_1h", "strength_15m",
                                 IF is_breakout THEN "breakout_5m" ELSE "pullback_5m">>
                               \o IF bonus = 5 THEN <<"adx_bonus">> ELSE <<>>]

\* what one pass over the symbols can find, symbol by symbol
MarketSnapshots ==
    {<<Long95, Long95, Long95, Long95>>,
     <<Short85, Long95, Short85, Long95>>,
     <<NoResult, Long95, Short85, NoResult>>}

\* candidates, in scan order, of one pass over the symbols
RECURSIVE Candidates(_, _)
Candidates(results, i) ==
    IF i > Len(Symbols) THEN <<>>
    ELSE IF results[i] = NoResult THEN Candidates(results, i + 1)
    ELSE <<[symbol |-> Symbols[i], direction |-> results[i].direction,
            score |-> results[i].score, entry_price |-> PriceOf(Symbols[i])]>>
         \o Candidates(results, i + 1)

\* candidates.sort(key=score, reverse=True): stable, ties keep scan order
RECURSIVE InsertByScore(_, _)
InsertByScore(c, sorted) ==
    IF sorted = <<>> THEN <<c>>
    ELSE IF Head(sorted).score >= c.score
         THEN <<Head(sorted)>> \o InsertByScore(c, Tail(sorted))
         ELSE <<c>> \o sorted

SortByScoreUnsorted(cands) == cands
RECURSIVE SortByScore(_)
SortByScore(cands) ==
    IF cands = <<>> THEN <<>>
    ELSE InsertByScore(cands[Len(cands)], SortByScore(SubSeq(cands, 1, Len(cands) - 1)))

plan_map == <<PLAN_PREMIUM, PLAN_PLUS, PLAN_FREE>>

\* stop_loss and take_profits the scanner computes from the entry price
price_levelsAsLong(entry_price, direction) ==
    [stop_loss |-> MulRound(entry_price, 99, 100),
     take_profits |-> <<MulRound(entry_price, 101, 100),
                        MulRound(entry_price, 102, 100)>>]
price_levels(entry_price, direction) ==
    IF direction = "LONG"
    THEN [stop_loss |-> MulRound(entry_price, 99, 100),
          take_profits |-> <<MulRound(entry_price, 101, 100),
                             MulRound(entry_price, 102, 100)>>]
    ELSE [stop_loss |-> MulRound(entry_price, 101, 100),
          take_profits |-> <<MulRound(entry_price, 99, 100),
                             MulRound(entry_price, 98, 100)>>]

Sleeping(minutes) ==
    [pc |-> "sleep", candidates |-> <<>>, top_3 |-> <<>>, idx |-> 0,
     wake_at |-> now + minutes, started_at |-> None]

LastCreatedAt(docs) ==
    IF docs = {} THEN None
    ELSE (CHOOSE s \in docs : \A q \in docs : s.created_at >= q.created_at).created_at

CreateRecord(symbol, direction, visibility, ok) ==
    [symbol |-> symbol, direction |-> direction, visibility |-> visibility,
     at |-> now, ok |-> ok,
     prev_symbol |-> LastCreatedAt({s \in signals : s.symbol = symbol}),
     prev_triple |-> LastCreatedAt({s \in signals :
                        /\ s.symbol = symbol
                        /\ s.direction = direction
                        /\ s.visibility = visibility})]

\* top of the loop: if telegram_signal_blocked(): sleep and continue
ScanGateBlocked == telegram_signal_blocked("")

ScanGate ==
    /\ scanner.pc = "gate"
    /\ scanner' = IF ScanGateBlocked
                  THEN Sleeping(SCAN_INTERVAL_MINUTES)
                  ELSE [scanner EXCEPT !.pc = "collect"]
    /\ UNCHANGED <<now, users, signals, user_signals, referrals, next_oid,
                   handler, pushes, last_create, last_derive, check_log, db_strict,
                   register_log, strategy_log, writer, push_log, scan_loop,
                   sched_loop, workers,
                   start_log, chain, purge_log>>

\* if len(candidates) < 3
TooFewCandidatesNever(candidates) == FALSE
TooFewCandidates(candidates) == Len(candidates) < MIN_CANDIDATES

\* candidates[:3]
FirstThree(sorted) ==
    SubSeq(sorted, 1, IF Len(sorted) < 3 THEN Len(sorted) ELSE 3)

\* the pass over the symbols, the candidate count test, the ranking
ScanCollect ==
    /\ scanner.pc = "collect"
    /\ \E results \in MarketSnapshots :
        LET candidates == Candidates(results, 1)
        IN  scanner' = IF TooFewCandidates(candidates)
                       \* the skipped pass keeps what it found and when it began
                       THEN [Sleeping(SCAN_INTERVAL_MINUTES) EXCEPT
                                !.candidates = candidates,
                                !.started_at = scanner.started_at]
                       ELSE [scanner EXCEPT !.pc = "create", !.idx = 1,
                                !.candidates = candidates,
                                !.top_3 = FirstThree(SortByScore(candidates))]
    /\ UNCHANGED <<now, users, signals, user_signals, referrals, next_oid,
                   handler, pushes, last_create, last_derive, check_log, db_strict,
                   register_log, strategy_log, writer, push_log, scan_loop,
                   sched_loop, workers,
                   start_log, chain, purge_log>>

\* get_active_futures_symbols raises: except Exception: sleep(60)
ScanFail ==
    /\ scanner.pc = "collect"
    /\ scanner' = Sleeping(SCAN_ERROR_SLEEP_MINUTES)
    /\ UNCHANGED <<now, users, signals, user_signals, referrals, next_oid,
                   handler, pushes, last_create, last_derive, check_log, db_strict,
                   register_log, strategy_log, writer, push_log, scan_loop,
                   sched_loop, workers,
                   start_log, chain, purge_log>>

\* one iteration of "for idx, signal in enumerate(top_3)"
ScanCreate ==
    /\ scanner.pc = "create"
    /\ LET c == scanner.top_3[scanner.idx]
           visibility == plan_map[scanner.idx]
           levels == price_levels(c.entry_price, c.direction)
           next == IF scanner.idx = Len(scanner.top_3)
                   THEN Sleeping(SCAN_INTERVAL_MINUTES)
                   ELSE [scanner EXCEPT !.idx = @ + 1]
       IN  IF recent_duplicate_exists(c.symbol, c.direction, visibility)
           THEN /\ scanner' = next
                /\ UNCHANGED <<signals, user_signals, next_oid, pushes, last_create,
                   start_log, chain, purge_log>>
           ELSE LET out == create_base_signal(c.symbol, c.direction, c.entry_price,
                                              levels.stop_loss, levels.take_profits,
                                              visibility)
                IN  /\ signals' = out.signals
                    /\ user_signals' = out.user_signals
                    /\ next_oid' = out.next_oid
                    /\ last_create' = CreateRecord(c.symbol, c.direction, visibility, out.ok)
                    /\ pushes' = pushes \cup notify_new_signal_alert(visibility)
                    /\ scanner' = next
    /\ UNCHANGED <<now, users, referrals, handler, last_derive, check_log, db_strict,
                   register_log, strategy_log, writer, push_log, scan_loop,
                   sched_loop, workers,
                   start_log, chain, purge_log>>

\* asyncio.sleep returns
ScanWake ==
    /\ scanner.pc = "sleep"
    /\ now >= scanner.wake_at
    /\ scanner' = [pc |-> "gate", candidates |-> <<>>, top_3 |-> <<>>, idx |-> 0,
                   wake_at |-> None, started_at |-> now]
    /\ UNCHANGED <<now, users, signals, user_signals, referrals, next_oid,
                   handler, pushes, last_create, last_derive, check_log, db_strict,
                   register_log, strategy_log, writer, push_log, scan_loop,
                   sched_loop, workers,
                   start_log, chain, purge_log>>


(***************************************************************************)
(* app/signals.py: get_latest_base_signal_for_plan                         *)
(* app/handlers.py: handle_menu("view_signals") -> handle_view_signals     *)
(***************************************************************************)
RECURSIVE NewestFirst(_)
NewestFirst(docs) ==
    IF docs = {} THEN <<>>
    ELSE LET d == CHOOSE r \in docs : \A q \in docs :
                    \/ r.created_at > q.created_at
                    \/ (r.created_at = q.created_at /\ r.id <= q.id)
         IN  <<d>> \o NewestFirst(docs \ {d})

\* the documents of user_signals (not of signals) that are still live
get_latest_base_signal_for_plan(user_id, user_plan) ==
    LET visibility == IF is_admin(user_id) THEN PLAN_PREMIUM ELSE user_plan
    IN  NewestFirst({r \in user_signals :
            /\ r.user_id = user_id
            /\ r.visibility = visibility
            /\ r.telegram_valid_until > now})

NoDoc == SubscriberDoc("", None, None)
NoCheck == [referrer_id |-> None, at |-> None, before |-> NoDoc,
            after |-> NoDoc, applied |-> FALSE]
NoRecord == [id |-> None]
NoRegister == [referred_user_id |-> None, activated_plan |-> "", at |-> None,
               ok |-> FALSE, before |-> [users |-> <<>>, referrals |-> {}],
               after |-> [users |-> <<>>, referrals |-> {}]]
NoEvaluation == [last_1h |-> <<>>, last_15m |-> <<>>, last_5m |-> <<>>,
                 called |-> FALSE, result |-> NoResult]
NoWrite == [pc |-> "idle", oid |-> None, at |-> None]
NoPush == [pc |-> "idle", visibility |-> "", user_ids |-> <<>>, i |-> 1,
           attempted |-> <<>>, sent |-> {}, tasks |-> {}, undeleted |-> {}]
NoScanLoop == [pc |-> "off", cycle |-> 0, idx |-> 0, processed |-> <<>>,
               failed |-> {}, candidates |-> <<>>, minutes |-> 0,
               raised |-> FALSE]
NoSchedLoop == [pc |-> "off", iteration |-> 0, errors_in_row |-> 0,
                seconds |-> 0, cancelled |-> FALSE]
NoWorkers == <<>>
NoStart == [user_id |-> None, ref_user_id |-> None, existing_user |-> FALSE,
            referred_by |-> None]
NoChain == [pc |-> "idle", stack |-> <<>>, calls |-> 0]
NoPurge == [at |-> None, signals |-> {}, user_signals |-> {}]
Idle == [pc |-> "idle", user_id |-> None, user |-> NoDoc, list |-> <<>>,
         checked_at |-> None, shown |-> <<>>]

\* the access test of handle_view_signals
ViewDeniedNever(user_id) == FALSE
ViewDenied(user_id) ==
    ~is_admin(user_id)
    /\ ~(is_plan_active(users[user_id]) \/ is_trial_active(users[user_id]))

\* access test and query: "Acceso expirado", "No hay senales disponibles",
\* or the list the loop walks
ViewStart(u) ==
    /\ handler.pc = "idle"
    /\ u \in DOMAIN users
    /\ LET plan == IF is_admin(u) THEN PLAN_PREMIUM ELSE users[u].plan
           base_signals == get_latest_base_signal_for_plan(u, plan)
           entered == [pc |-> "show", user_id |-> u, user |-> users[u],
                       list |-> base_signals, checked_at |-> now, shown |-> <<>>]
       IN  handler' = IF ViewDenied(u)
                      THEN [entered EXCEPT !.pc = "denied", !.list = <<>>]
                      ELSE IF base_signals = <<>>
                           THEN [entered EXCEPT !.pc = "empty"]
                           ELSE entered
    /\ UNCHANGED <<now, users, signals, user_signals, referrals, next_oid,
                   scanner, pushes, last_create, last_derive, check_log, db_strict,
                   register_log, strategy_log, writer, push_log, scan_loop,
                   sched_loop, workers,
                   start_log, chain, purge_log>>

\* one iteration of "for base_signal in base_signals": derive and display
ViewShow ==
    /\ handler.pc = "show"
    /\ handler.list # <<>>
    /\ LET got == generate_user_signal(Head(handler.list), handler.user_id,
                                       next_oid, token_hex(next_oid))
       IN  /\ user_signals' = IF got.inserted
                              THEN user_signals \cup {got.doc}
                              ELSE user_signals
           /\ next_oid' = IF got.inserted THEN next_oid + 1 ELSE next_oid
           /\ handler' = [handler EXCEPT !.list = Tail(@), !.shown = <<got.doc>>]
    /\ UNCHANGED <<now, users, signals, referrals, scanner, pushes,
                   last_create, last_derive, check_log, db_strict,
                   register_log, strategy_log, writer, push_log, scan_loop,
                   sched_loop, workers,
                   start_log, chain, purge_log>>

\* the handler returns; after the loop it writes back the user document it
\* was given: update_one({"$set": update_timestamp(user)})
ViewReturn ==
    /\ handler.pc \in {"denied", "empty", "show"}
    /\ handler.pc = "show" => handler.list = <<>>
    /\ users' = IF handler.pc = "show"
                THEN [users EXCEPT ![handler.user_id] = handler.user]
                ELSE users
    /\ handler' = Idle
    /\ UNCHANGED <<now, signals, user_signals, referrals, next_oid, scanner,
                   pushes, last_create, last_derive, check_log, db_strict,
                   register_log, strategy_log, writer, push_log, scan_loop,
                   sched_loop, workers,
                   start_log, chain, purge_log>>

(***************************************************************************)
(* The clock                                                               *)
(***************************************************************************)
Tick ==
    /\ now + TickMinutes <= MaxNow
    /\ scanner.pc # "sleep" => now < scanner.started_at + MaxCycleMinutes
    /\ handler.pc # "idle" => now < handler.checked_at + MaxViewMinutes
    /\ now' = now + TickMinutes
    /\ UNCHANGED <<users, signals, user_signals, referrals, next_oid, scanner,
                   handler, pushes, last_create, last_derive, check_log, db_strict,
                   register_log, strategy_log, writer, push_log, scan_loop,
                   sched_loop, workers,
                   start_log, chain, purge_log>>

(***************************************************************************)
(* The scanner, the push and the view handler over a population of         *)
(* subscribers that registered and were activated before the scan starts   *)
(***************************************************************************)
\* on trial or on a paid plan, either of which runs out at AccessEnd
SubscriberStates ==
    {SubscriberDoc(PLAN_FREE, None, AccessEnd),
     SubscriberDoc(PLAN_PLUS, AccessEnd, None),
     SubscriberDoc(PLAN_PREMIUM, AccessEnd, None)}

NoDerive == [signal_id |-> None, user_id |-> None, at |-> None,
             valid_until |-> None, prior |-> {}, doc |-> NoRecord,
             inserted |-> FALSE]

NoCreate == [symbol |-> "", direction |-> "", visibility |-> "", at |-> None,
             ok |-> FALSE, prev_symbol |-> None, prev_triple |-> None]

Init ==
    /\ now = 0
    /\ users \in [UserIds -> SubscriberStates]
    /\ signals = {}
    /\ user_signals = {}
    /\ referrals = {}
    /\ next_oid = 1
    /\ scanner = [pc |-> "gate", candidates |-> <<>>, top_3 |-> <<>>, idx |-> 0,
                  wake_at |-> None, started_at |-> 0]
    /\ handler = Idle
    /\ pushes = {}
    /\ last_create = NoCreate
    /\ last_derive = NoDerive
    /\ check_log = NoCheck
    /\ db_strict = TRUE
    /\ register_log = NoRegister
    /\ strategy_log = NoEvaluation
    /\ writer = NoWrite
    /\ push_log = NoPush
    /\ scan_loop = NoScanLoop
    /\ sched_loop = NoSchedLoop
    /\ workers = NoWorkers
    /\ start_log = NoStart
    /\ chain = NoChain
    /\ purge_log = NoPurge

Next ==
    \/ ScanGate
    \/ ScanCollect
    \/ ScanFail
    \/ ScanCreate
    \/ ScanWake
    \/ \E u \in UserIds : ViewStart(u)
    \/ ViewShow
    \/ ViewReturn
    \/ Tick

Spec == Init /\ [][Next]_vars

(***************************************************************************)
(* create_base_signal and generate_user_signal called directly, at any     *)
(* time and in any order, the scan loop not running; last_create and       *)
(* last_derive describe the last call made                                 *)
(***************************************************************************)
ApiInputs ==
    {<<"BTCUSDT", "LONG", PLAN_PREMIUM>>,
     <<"BTCUSDT", "SHORT", PLAN_PREMIUM>>,
     <<"ETHUSDT", "LONG", PLAN_PLUS>>}

ApiCreate(symbol, direction, visibility) ==
    /\ next_oid <= MaxOid
    /\ LET levels == price_levels(PriceOf(symbol), direction)
           out == create_base_signal(symbol, direction, PriceOf(symbol),
                                     levels.stop_loss, levels.take_profits,
                                     visibility)
       IN  /\ signals' = out.signals
           /\ user_signals' = out.user_signals
           /\ next_oid' = out.next_oid
           /\ last_create' = CreateRecord(symbol, direction, visibility, out.ok)
           /\ last_derive' = NoDerive
    /\ UNCHANGED <<now, users, referrals, scanner, handler, pushes, check_log, db_strict,
                   register_log, strategy_log, writer, push_log, scan_loop,
                   sched_loop, workers,
                   start_log, chain, purge_log>>

ApiDerive(user_id) ==
    /\ next_oid <= MaxOid
    /\ \E base \in signals :
       LET got == generate_user_signal(base, user_id, next_oid, token_hex(next_oid))
       IN  /\ user_signals' = IF got.inserted
                              THEN user_signals \cup {got.doc}
                              ELSE user_signals
           /\ next_oid' = IF got.inserted THEN next_oid + 1 ELSE next_oid
           /\ last_derive' =
                [signal_id |-> base.id, user_id |-> user_id, at |-> now,
                 valid_until |-> base.valid_until,
                 prior |-> {r \in user_signals :
                              r.signal_id = base.id /\ r.user_id = user_id},
                 doc |-> got.doc, inserted |-> got.inserted]
           /\ last_create' = NoCreate
    /\ UNCHANGED <<now, users, signals, referrals, scanner, handler, pushes,
                   check_log, db_strict,
                   register_log, strategy_log, writer, push_log, scan_loop,
                   sched_loop, workers,
                   start_log, chain, purge_log>>

InitApi ==
    /\ now = 0
    /\ users = [u \in UserIds |-> SubscriberDoc(PLAN_PREMIUM, AccessEnd, None)]
    /\ signals = {}
    /\ user_signals = {}
    /\ referrals = {}
    /\ next_oid = 1
    /\ scanner = Sleeping(0)
    /\ handler = Idle
    /\ pushes = {}
    /\ last_create = NoCreate
    /\ last_derive = NoDerive
    /\ check_log = NoCheck
    /\ db_strict = TRUE
    /\ register_log = NoRegister
    /\ strategy_log = NoEvaluation
    /\ writer = NoWrite
    /\ push_log = NoPush
    /\ scan_loop = NoScanLoop
    /\ sched_loop = NoSchedLoop
    /\ workers = NoWorkers
    /\ start_log = NoStart
    /\ chain = NoChain
    /\ purge_log = NoPurge

NextApi ==
    \/ \E c \in ApiInputs : ApiCreate(c[1], c[2], c[3])
    \/ \E u \in UserIds : ApiDerive(u)
    \/ Tick

SpecApi == InitApi /\ [][NextApi]_vars

(***************************************************************************)
(* app/plans.py, app/referrals.py: activation, referral registration and   *)
(* rewards.  The operators take and return the store st (the users and     *)
(* referrals collections) because they call one another: an activation     *)
(* registers the referral, the registration checks the referrer's rewards, *)
(* and a reward activates the referrer.                                    *)
(*                                                                         *)
(* register_valid_referral sends one update whose $inc and whose $set both *)
(* name ref_plus_valid / ref_premium_valid.  Whether the database applies  *)
(* it or rejects it (MongoDB rejects conflicting paths, and the rejection  *)
(* is caught by the except clause) is db_strict, fixed for a run.          *)
(***************************************************************************)
Store == [users |-> users, referrals |-> referrals]

\* update_one({"$set": doc}) with a document read earlier: every field the
\* document holds is overwritten, a field it lacks is kept
SetDoc(current, doc) ==
    [doc EXCEPT
        !.ref_plus_total = IF @ = None THEN current.ref_plus_total ELSE @,
        !.ref_premium_total = IF @ = None THEN current.ref_premium_total ELSE @]

\* users_col.find({"plan_end": {"$lt": now, "$ne": None}, "plan": {"$ne": free}})
ExpiredUsers(docs) ==
    {u \in DOMAIN docs :
        /\ docs[u].plan_end # None
        /\ docs[u].plan_end < now
        /\ docs[u].plan # PLAN_FREE}

\* .limit(BATCH_SIZE): the query has no sort, any BATCH_SIZE of the matching
\* documents (all of them if there are fewer) can be the ones returned
Batches(docs) ==
    {batch \in SUBSET ExpiredUsers(docs) :
        Cardinality(batch) = IF Cardinality(ExpiredUsers(docs)) < BATCH_SIZE
                             THEN Cardinality(ExpiredUsers(docs))
                             ELSE BATCH_SIZE}

\* the update of each returned document to free
check_expired_plansAllExpired(docs, batch) ==
    [u \in DOMAIN docs |->
        IF docs[u].plan_end # None /\ docs[u].plan_end < now
        THEN [docs[u] EXCEPT !.plan = PLAN_FREE, !.plan_end = None]
        ELSE docs[u]]
check_expired_plansKeepsEnd(docs, batch) ==
    [u \in DOMAIN docs |->
        IF u \in batch THEN [docs[u] EXCEPT !.plan = PLAN_FREE] ELSE docs[u]]
check_expired_plans(docs, batch) ==
    [u \in DOMAIN docs |->
        IF u \in batch
        THEN [docs[u] EXCEPT !.plan = PLAN_FREE, !.plan_end = None]
        ELSE docs[u]]

extend_current_plan(st, user_id, days) ==
    IF user_id \notin DOMAIN st.users \/ ~is_plan_active(st.users[user_id])
    THEN [st |-> st, ok |-> FALSE]
    ELSE LET user == st.users[user_id]
             new_end == IF user.plan_end # None
                        THEN user.plan_end + days * DayMinutes
                        ELSE now + days * DayMinutes
         IN  [st |-> [st EXCEPT !.users[user_id] =
                                    SetDoc(@, [user EXCEPT !.plan_end = new_end])],
              ok |-> TRUE]

\* existing = refs_col.find_one({referrer_id, referred_id})
already_registeredNever(refs, referrer_id, referred_id) == FALSE
already_registered(refs, referrer_id, referred_id) ==
    \E r \in refs : r.referrer_id = referrer_id /\ r.referred_id = referred_id

RECURSIVE ActivatePaid(_, _, _)
RECURSIVE register_valid_referral(_, _, _)
RECURSIVE check_ref_rewards(_, _)

\* the body shared by activate_plus and activate_premium
ActivatePaid(st, user_id, plan) ==
    IF user_id \notin DOMAIN st.users
    THEN [st |-> st, ok |-> FALSE]
    ELSE LET saved == [st EXCEPT !.users[user_id] =
                          SetDoc(@, activate_plan(@, plan, PLAN_DURATION_DAYS))]
         IN  [st |-> register_valid_referral(saved, user_id, plan).st, ok |-> TRUE]

register_valid_referral(st, referred_user_id, activated_plan) ==
    IF referred_user_id \notin DOMAIN st.users
    THEN [st |-> st, ok |-> FALSE]
    ELSE LET referrer_id == st.users[referred_user_id].referred_by
         IN  IF \/ referrer_id = None
                \/ referrer_id = referred_user_id
                \/ referrer_id \notin DOMAIN st.users
                \/ already_registered(st.referrals, referrer_id, referred_user_id)
             THEN [st |-> st, ok |-> FALSE]
             ELSE LET referrer == st.users[referrer_id]
                      ref_doc == [referrer_id |-> referrer_id,
                                  referred_id |-> referred_user_id,
                                  activated_plan |-> activated_plan,
                                  activated_at |-> now]
                      inserted == [st EXCEPT !.referrals = @ \cup {ref_doc}]
                  IN  IF activated_plan \in {PLAN_PLUS, PLAN_PREMIUM} /\ db_strict
                      THEN [st |-> inserted, ok |-> FALSE]
                      ELSE LET counted ==
                                 IF activated_plan = PLAN_PLUS
                                 THEN [inserted EXCEPT !.users[referrer_id] =
                                         [SetDoc(@, referrer) EXCEPT
                                            !.ref_plus_valid = @ + 1,
                                            !.ref_plus_total = Total(@) + 1]]
                                 ELSE IF activated_plan = PLAN_PREMIUM
                                 THEN [inserted EXCEPT !.users[referrer_id] =
                                         [SetDoc(@, referrer) EXCEPT
                                            !.ref_premium_valid = @ + 1,
                                            !.ref_premium_total = Total(@) + 1]]
                                 ELSE inserted
                           IN  [st |-> check_ref_rewards(counted, referrer_id).st,
                                ok |-> TRUE]

check_ref_rewards(st, referrer_id) ==
    IF referrer_id \notin DOMAIN st.users \/ ~is_plan_active(st.users[referrer_id])
    THEN [st |-> st, ok |-> FALSE]
    ELSE LET referrer == st.users[referrer_id]
             plan == referrer.plan
             plus_count == referrer.ref_plus_valid
             premium_count == referrer.ref_premium_valid
             none == [st |-> st, ok |-> FALSE]
             \* if <activation or extension succeeded>: update_one({"$inc": ...})
             SpendPlus(res, n) ==
                 IF res.ok
                 THEN [st |-> [res.st EXCEPT !.users[referrer_id].ref_plus_valid = @ - n],
                       ok |-> TRUE]
                 ELSE res
             SpendPremium(res, n) ==
                 IF res.ok
                 THEN [st |-> [res.st EXCEPT !.users[referrer_id].ref_premium_valid = @ - n],
                       ok |-> TRUE]
                 ELSE res
             reward ==
                 IF plan = PLAN_FREE
                 THEN IF premium_count >= 5
                      THEN SpendPremium(ActivatePaid(st, referrer_id, PLAN_PREMIUM), 5)
                      ELSE IF plus_count >= 5
                      THEN SpendPlus(ActivatePaid(st, referrer_id, PLAN_PLUS), 5)
                      ELSE none
                 ELSE IF plan = PLAN_PLUS
                 THEN IF premium_count >= 5
                      THEN SpendPremium(ActivatePaid(st, referrer_id, PLAN_PREMIUM), 5)
                      ELSE IF plus_count >= 5
                      THEN SpendPlus(extend_current_plan(st, referrer_id, 30), 5)
                      ELSE none
                 ELSE IF plan = PLAN_PREMIUM
                 THEN IF premium_count >= 5
                      THEN SpendPremium(extend_current_plan(st, referrer_id, 30), 5)
                      ELSE IF plus_count >= 10
                      THEN SpendPlus(extend_current_plan(st, referrer_id, 30), 10)
                      ELSE none
                 ELSE none
         IN  IF reward.ok
             \* if reward_applied: update_one({"$set": update_timestamp(referrer)})
             THEN [st |-> [reward.st EXCEPT !.users[referrer_id] = SetDoc(@, referrer)],
                   ok |-> TRUE]
             ELSE reward

activate_plus(st, user_id) == ActivatePaid(st, user_id, PLAN_PLUS)
activate_premium(st, user_id) == ActivatePaid(st, user_id, PLAN_PREMIUM)

(***************************************************************************)
(* Registration, admin activation and the expiry sweep, on the scale of    *)
(* days                                                                    *)
(***************************************************************************)
RefUserIds == 1..NumRefUsers

\* app/bot.py start: /start of a user not yet stored, with its ref_ argument
\* (0: none); users join in the order of their ids
Start(u, ref_user_id) ==
    /\ u \notin DOMAIN users
    /\ \A v \in RefUserIds : v < u => v \in DOMAIN users
    /\ LET referred_by == IF /\ ref_user_id # 0
                             /\ ref_user_id # u
                             /\ ref_user_id \in DOMAIN users
                          THEN ref_user_id
                          ELSE None
       IN  users' = [v \in DOMAIN users \cup {u} |->
                        IF v = u THEN new_user(referred_by) ELSE users[v]]
    /\ UNCHANGED <<now, signals, user_signals, referrals, next_oid, scanner,
                   handler, pushes, last_create, last_derive, check_log, db_strict,
                   register_log, strategy_log, writer, push_log, scan_loop,
                   sched_loop, workers,
                   start_log, chain, purge_log>>

\* handle_menu, choose_plus_plan / choose_premium_plan for the target the
\* administrator named
AdminActivate(target_user_id, plan) ==
    /\ target_user_id \in DOMAIN users
    /\ users[target_user_id].plan_end # None
          => users[target_user_id].plan_end < now + MaxPaidDays * DayMinutes
    /\ LET act == IF plan = PLAN_PLUS
                  THEN activate_plus(Store, target_user_id)
                  ELSE activate_premium(Store, target_user_id)
           plan_name == IF plan = PLAN_PLUS THEN "PLUS" ELSE "PREMIUM"
           out == IF act.ok
                  THEN register_valid_referral(act.st, target_user_id, plan_name).st
                  ELSE act.st
       IN  /\ users' = out.users
           /\ referrals' = out.referrals
    /\ UNCHANGED <<now, signals, user_signals, next_oid, scanner, handler,
                   pushes, last_create, last_derive, check_log, db_strict,
                   register_log, strategy_log, writer, push_log, scan_loop,
                   sched_loop, workers,
                   start_log, chain, purge_log>>

\* scheduler_loop: check_expired_plans
ExpireSweep ==
    /\ \E batch \in Batches(users) : users' = check_expired_plans(users, batch)
    /\ UNCHANGED <<now, signals, user_signals, referrals, next_oid, scanner,
                   handler, pushes, last_create, last_derive, check_log, db_strict,
                   register_log, strategy_log, writer, push_log, scan_loop,
                   sched_loop, workers,
                   start_log, chain, purge_log>>

RefTick ==
    /\ now + RefTickDays * DayMinutes <= MaxRefDays * DayMinutes
    /\ now' = now + RefTickDays * DayMinutes
    /\ UNCHANGED <<users, signals, user_signals, referrals, next_oid, scanner,
                   handler, pushes, last_create, last_derive, check_log, db_strict,
                   register_log, strategy_log, writer, push_log, scan_loop,
                   sched_loop, workers,
                   start_log, chain, purge_log>>

InitRef ==
    /\ now = 0
    /\ users = <<>>
    /\ signals = {}
    /\ user_signals = {}
    /\ referrals = {}
    /\ next_oid = 1
    /\ scanner = Sleeping(0)
    /\ handler = Idle
    /\ pushes = {}
    /\ last_create = NoCreate
    /\ last_derive = NoDerive
    /\ check_log = NoCheck
    /\ db_strict \in BOOLEAN
    /\ register_log = NoRegister
    /\ strategy_log = NoEvaluation
    /\ writer = NoWrite
    /\ push_log = NoPush
    /\ scan_loop = NoScanLoop
    /\ sched_loop = NoSchedLoop
    /\ workers = NoWorkers
    /\ start_log = NoStart
    /\ chain = NoChain
    /\ purge_log = NoPurge

NextRef ==
    \/ \E u \in RefUserIds : \E ref_user_id \in 0..NumRefUsers : Start(u, ref_user_id)
    \/ \E u \in RefUserIds : \E plan \in {PLAN_PLUS, PLAN_PREMIUM} :
          AdminActivate(u, plan)
    \/ ExpireSweep
    \/ RefTick

SpecRef == InitRef /\ [][NextRef]_vars

(***************************************************************************)
(* check_ref_rewards called directly on a referrer whose document and      *)
(* referral records are drawn at the start                                 *)
(***************************************************************************)
\* the referrer, referred by user 1, after counting plus_valid plus and
\* premium_valid premium referrals
ReferrerDoc(plan, plan_end, trial_end, plus_valid, premium_valid) ==
    [SubscriberDoc(plan, plan_end, trial_end) EXCEPT
        !.referred_by = 1,
        !.ref_plus_valid = plus_valid,
        !.ref_premium_valid = premium_valid,
        !.ref_plus_total = IF plus_valid = 0 THEN None ELSE plus_valid,
        !.ref_premium_total = IF premium_valid = 0 THEN None ELSE premium_valid]

ReferrerAccess ==
    {<<PLAN_FREE, None, TRIAL_DAYS * DayMinutes>>,
     <<PLAN_FREE, None, None>>,
     <<PLAN_PLUS, PLAN_DURATION_DAYS * DayMinutes, None>>,
     <<PLAN_PREMIUM, PLAN_DURATION_DAYS * DayMinutes, None>>}

\* the records of the referrals the referrer's counters count
CountedReferrals(referrer_id, plus_valid, premium_valid) ==
    {[referrer_id |-> referrer_id, referred_id |-> 100 + i,
      activated_plan |-> IF i <= plus_valid THEN PLAN_PLUS ELSE PLAN_PREMIUM,
      activated_at |-> 0] : i \in 1..(plus_valid + premium_valid)}

CheckRewards(referrer_id) ==
    /\ referrer_id \in DOMAIN users
    /\ LET out == check_ref_rewards(Store, referrer_id)
       IN  /\ users' = out.st.users
           /\ referrals' = out.st.referrals
           /\ check_log' = [referrer_id |-> referrer_id, at |-> now,
                            before |-> users[referrer_id],
                            after |-> out.st.users[referrer_id],
                            applied |-> out.ok]
    /\ UNCHANGED <<now, signals, user_signals, next_oid, scanner, handler,
                   pushes, last_create, last_derive, db_strict,
                   register_log, strategy_log, writer, push_log, scan_loop,
                   sched_loop, workers,
                   start_log, chain, purge_log>>

\* the record of the referrer's own first activation, which
\* register_valid_referral inserted for the referrer's referrer (user 1): a
\* document without trial_end has been through activate_plan
OwnReferral(plan, trial_end) ==
    IF trial_end # None THEN {}
    ELSE {[referrer_id |-> 1, referred_id |-> 2,
           activated_plan |-> IF plan = PLAN_PREMIUM THEN PLAN_PREMIUM ELSE PLAN_PLUS,
           activated_at |-> 0]}

\* user 1, whose counters counted that record if the store applied the update
FirstReferrerDoc(own, strict) ==
    LET doc == SubscriberDoc(PLAN_PLUS, PLAN_DURATION_DAYS * DayMinutes, None)
    IN  IF own = {} \/ strict THEN doc
        ELSE IF \E r \in own : r.activated_plan = PLAN_PREMIUM
        THEN [doc EXCEPT !.ref_premium_valid = 1, !.ref_premium_total = 1]
        ELSE [doc EXCEPT !.ref_plus_valid = 1, !.ref_plus_total = 1]

InitRewards ==
    /\ now = 0
    /\ db_strict \in BOOLEAN
    /\ register_log = NoRegister
    /\ strategy_log = NoEvaluation
    /\ writer = NoWrite
    /\ push_log = NoPush
    /\ scan_loop = NoScanLoop
    /\ sched_loop = NoSchedLoop
    /\ workers = NoWorkers
    /\ start_log = NoStart
    /\ chain = NoChain
    /\ purge_log = NoPurge
    /\ \E a \in ReferrerAccess :
       \E plus_valid \in {0, 5, 10} : \E premium_valid \in 0..MaxPremiumValid :
          /\ users = <<FirstReferrerDoc(OwnReferral(a[1], a[3]), db_strict),
                       ReferrerDoc(a[1], a[2], a[3], plus_valid, premium_valid)>>
          /\ referrals = CountedReferrals(2, plus_valid, premium_valid)
                            \cup OwnReferral(a[1], a[3])
    /\ signals = {}
    /\ user_signals = {}
    /\ next_oid = 1
    /\ scanner = Sleeping(0)
    /\ handler = Idle
    /\ pushes = {}
    /\ last_create = NoCreate
    /\ last_derive = NoDerive
    /\ check_log = NoCheck

NextRewards ==
    \/ \E u \in {1, 2} : CheckRewards(u)
    \/ ExpireSweep
    \/ RefTick

SpecRewards == InitRewards /\ [][NextRewards]_vars

(***************************************************************************)
(* register_valid_referral called directly for a referred user whose       *)
(* document is drawn at the start; register_log describes the last call.   *)
(* Besides the documents app/bot.py start writes (no referrer, or one that *)
(* exists), the draw holds the two the guards of steps 3 and 4 are written *)
(* for: a user referred by itself, and one whose referrer is not stored.   *)
(***************************************************************************)
MissingUserId == 3

\* the referrer (user 1): on trial, or on a running plus plan one premium
\* referral short of the first threshold
RegisterReferrers ==
    {new_user(None),
     [ReferrerDoc(PLAN_PLUS, PLAN_DURATION_DAYS * DayMinutes, None, 0, 4)
         EXCEPT !.referred_by = None]}

Register(referred_user_id, activated_plan) ==
    /\ LET out == register_valid_referral(Store, referred_user_id, activated_plan)
       IN  /\ users' = out.st.users
           /\ referrals' = out.st.referrals
           /\ register_log' = [referred_user_id |-> referred_user_id,
                               activated_plan |-> activated_plan,
                               at |-> now, ok |-> out.ok,
                               before |-> Store, after |-> out.st]
    /\ UNCHANGED <<now, signals, user_signals, next_oid, scanner, handler,
                   pushes, last_create, last_derive, check_log, db_strict,
                   strategy_log, writer, push_log, scan_loop,
                   sched_loop, workers,
                   start_log, chain, purge_log>>

InitRegister ==
    /\ now = 0
    /\ \E referrer \in RegisterReferrers :
       \E referred_by \in {None, 1, 2, MissingUserId} :
          users = <<referrer, new_user(referred_by)>>
    /\ signals = {}
    /\ user_signals = {}
    /\ referrals = {}
    /\ next_oid = 1
    /\ scanner = Sleeping(0)
    /\ handler = Idle
    /\ pushes = {}
    /\ last_create = NoCreate
    /\ last_derive = NoDerive
    /\ check_log = NoCheck
    /\ db_strict \in BOOLEAN
    /\ register_log = NoRegister
    /\ strategy_log = NoEvaluation
    /\ writer = NoWrite
    /\ push_log = NoPush
    /\ scan_loop = NoScanLoop
    /\ sched_loop = NoSchedLoop
    /\ workers = NoWorkers
    /\ start_log = NoStart
    /\ chain = NoChain
    /\ purge_log = NoPurge

NextRegister ==
    \/ \E referred_user_id \in {1, 2, MissingUserId} :
       \E activated_plan \in {PLAN_PLUS, PLAN_PREMIUM} :
          Register(referred_user_id, activated_plan)
    \/ ExpireSweep
    \/ RefTick

SpecRegister == InitRegister /\ [][NextRegister]_vars

(***************************************************************************)
(* mtf_strategy called on last rows drawn at the start.  The 1h close lies *)
(* around an EMA of 100; the 5m close runs over the Bollinger bands 2 / 3 /*)
(* 4 with an EMA below or above all of them; a frame too short for an      *)
(* indicator has NaN in its place.                                         *)
(***************************************************************************)
AdxValues == {NaN, ADX_MIN_TREND - 1, ADX_MIN_TREND, 35}
Rows1h == [close : {99, 100, 101}, ema_200 : {100, NaN}, adx : AdxValues \ {35}]
Rows15m == [adx : AdxValues \ {35}]
Bands == {[bb_low |-> 2, bb_mid |-> 3, bb_high |-> 4],
          [bb_low |-> NaN, bb_mid |-> NaN, bb_high |-> NaN]}
Rows5m ==
    {[close |-> close, ema_200 |-> ema_200, adx |-> adx, bb_low |-> b.bb_low,
      bb_mid |-> b.bb_mid, bb_high |-> b.bb_high, volume |-> 3, vol_ma |-> vol_ma] :
        close \in 1..MaxClose, ema_200 \in {0, MaxClose + 1, NaN}, adx \in AdxValues,
        b \in Bands, vol_ma \in {2, 3, NaN}}

Evaluate ==
    /\ ~strategy_log.called
    /\ strategy_log' = [strategy_log EXCEPT
                           !.called = TRUE,
                           !.result = mtf_strategy(strategy_log.last_1h,
                                                   strategy_log.last_15m,
                                                   strategy_log.last_5m)]
    /\ UNCHANGED <<now, users, signals, user_signals, referrals, next_oid,
                   scanner, handler, pushes, last_create, last_derive,
                   check_log, db_strict, register_log, writer, push_log,
                   scan_loop, sched_loop, workers,
                   start_log, chain, purge_log>>

InitStrategy ==
    /\ now = 0
    /\ users = <<>>
    /\ signals = {}
    /\ user_signals = {}
    /\ referrals = {}
    /\ next_oid = 1
    /\ scanner = Sleeping(0)
    /\ handler = Idle
    /\ pushes = {}
    /\ last_create = NoCreate
    /\ last_derive = NoDerive
    /\ check_log = NoCheck
    /\ db_strict = TRUE
    /\ register_log = NoRegister
    /\ \E last_1h \in Rows1h : \E last_15m \in Rows15m : \E last_5m \in Rows5m :
          strategy_log = [last_1h |-> last_1h, last_15m |-> last_15m,
                          last_5m |-> last_5m, called |-> FALSE,
                          result |-> NoResult]
    /\ writer = NoWrite
    /\ push_log = NoPush
    /\ scan_loop = NoScanLoop
    /\ sched_loop = NoSchedLoop
    /\ workers = NoWorkers
    /\ start_log = NoStart
    /\ chain = NoChain
    /\ purge_log = NoPurge

NextStrategy == Evaluate

SpecStrategy == InitStrategy /\ [][NextStrategy]_vars

(***************************************************************************)
(* create_base_signal write by write: insert_one of the new_signal         *)
(* document, then update_one setting created_at, the two validity          *)
(* timestamps and the entry zone, then the fan-out.  Other threads read    *)
(* the collection between the two writes, and an error of the update or a  *)
(* stop of the process leaves what the insert stored.                      *)
(***************************************************************************)
\* app/models.py new_signal: the document as insert_one stores it
new_signal(oid, symbol, direction, entry_price, stop_loss, take_profits, visibility) ==
    [BaseSignalDoc(oid, symbol, direction, entry_price, stop_loss, take_profits,
                   visibility) EXCEPT
        !.valid_until = None,
        !.telegram_valid_until = None,
        !.entry_zone = [low |-> None, high |-> None]]

CreateInsert(symbol, direction, visibility) ==
    /\ writer.pc = "idle"
    /\ next_oid <= MaxOid
    /\ ~telegram_signal_blocked(symbol)
    /\ LET levels == price_levels(PriceOf(symbol), direction)
       IN  signals' = signals \cup
              {new_signal(next_oid, symbol, direction, PriceOf(symbol),
                          levels.stop_loss, levels.take_profits, visibility)}
    /\ next_oid' = next_oid + 1
    /\ writer' = [pc |-> "inserted", oid |-> next_oid, at |-> now]
    /\ UNCHANGED <<now, users, user_signals, referrals, scanner, handler, pushes,
                   last_create, last_derive, check_log, db_strict, register_log,
                   strategy_log, push_log, scan_loop, sched_loop, workers,
                   start_log, chain, purge_log>>

\* update_one({"_id": inserted_id}, {"$set": ...}), generate_user_signal_for_plan
CreateUpdate ==
    /\ writer.pc = "inserted"
    /\ \E doc \in signals :
          /\ doc.id = writer.oid
          /\ LET base == [doc EXCEPT
                            !.created_at = writer.at,
                            !.valid_until =
                                writer.at + calculate_signal_validity(ScanTimeframes),
                            !.telegram_valid_until =
                                writer.at + TELEGRAM_SIGNAL_COOLDOWN_MINUTES,
                            !.entry_zone = calculate_entry_zone(doc.entry_price)]
             IN  /\ signals' = (signals \ {doc}) \cup {base}
                 /\ user_signals' = user_signals \cup FanOut(base, next_oid)
                 /\ next_oid' = next_oid + Cardinality(FanOutTargets(base))
    /\ writer' = NoWrite
    /\ UNCHANGED <<now, users, referrals, scanner, handler, pushes, last_create,
                   last_derive, check_log, db_strict, register_log, strategy_log,
                   push_log, scan_loop, sched_loop, workers,
                   start_log, chain, purge_log>>

\* the update raises (the scan loop catches it at its boundary), or the
\* process stops and is started again
CreateInterrupted ==
    /\ writer.pc = "inserted"
    /\ writer' = NoWrite
    /\ UNCHANGED <<now, users, signals, user_signals, referrals, next_oid,
                   scanner, handler, pushes, last_create, last_derive, check_log,
                   db_strict, register_log, strategy_log, push_log, scan_loop,
                   sched_loop, workers,
                   start_log, chain, purge_log>>

InitCreate == InitApi

NextCreate ==
    \/ \E c \in ApiInputs : CreateInsert(c[1], c[2], c[3])
    \/ CreateUpdate
    \/ CreateInterrupted
    \/ Tick

SpecCreate == InitCreate /\ [][NextCreate]_vars

(***************************************************************************)
(* app/notifier.py: the send loop of notify_new_signal_alert, one          *)
(* bot.send_message at a time, and the _auto_delete tasks it leaves        *)
(* behind.  Each send and each deletion either succeeds or raises.         *)
(***************************************************************************)
\* users_col.find({}): the documents in the order of the collection
RECURSIVE InStoreOrder(_)
InStoreOrder(S) ==
    IF S = {} THEN <<>>
    ELSE LET first == CHOOSE u \in S : \A v \in S : u <= v
         IN  <<first>> \o InStoreOrder(S \ {first})

\* for user_id in user_ids: try: ... except Exception: logger.warning(...)
NextRecipientStopOnError(i, n, ok) == IF ok THEN i + 1 ELSE n + 1
NextRecipient(i, n, ok) == i + 1

NotifyStart(signal_visibility) ==
    /\ push_log.pc \in {"idle", "done"}
    /\ LET user_ids == InStoreOrder(_eligible_users_for_alert(signal_visibility))
       IN  push_log' = [push_log EXCEPT
                           !.pc = IF user_ids = <<>> THEN "done" ELSE "sending",
                           !.visibility = signal_visibility,
                           !.user_ids = user_ids,
                           !.i = 1,
                           !.attempted = <<>>,
                           !.sent = {}]
    /\ UNCHANGED <<now, users, signals, user_signals, referrals, next_oid,
                   scanner, handler, pushes, last_create, last_derive, check_log,
                   db_strict, register_log, strategy_log, writer, scan_loop,
                   sched_loop, workers,
                   start_log, chain, purge_log>>

\* msg = await bot.send_message(...); create_task(_auto_delete(...)); sent += 1
Send(ok) ==
    /\ push_log.pc = "sending"
    /\ LET user_id == push_log.user_ids[push_log.i]
           next == NextRecipient(push_log.i, Len(push_log.user_ids), ok)
       IN  push_log' = [push_log EXCEPT
                           !.attempted = Append(@, user_id),
                           !.sent = IF ok THEN @ \cup {user_id} ELSE @,
                           !.tasks = IF ok THEN @ \cup {user_id} ELSE @,
                           !.undeleted = IF ok THEN @ \ {user_id} ELSE @,
                           !.i = next,
                           !.pc = IF next > Len(push_log.user_ids)
                                  THEN "done" ELSE "sending"]
    /\ UNCHANGED <<now, users, signals, user_signals, referrals, next_oid,
                   scanner, handler, pushes, last_create, last_derive, check_log,
                   db_strict, register_log, strategy_log, writer, scan_loop,
                   sched_loop, workers,
                   start_log, chain, purge_log>>

\* _auto_delete: try: await bot.delete_message(...) except Exception: pass
AutoDelete(user_id, ok) ==
    /\ user_id \in push_log.tasks
    /\ push_log' = [push_log EXCEPT
                       !.tasks = @ \ {user_id},
                       !.undeleted = IF ok THEN @ ELSE @ \cup {user_id}]
    /\ UNCHANGED <<now, users, signals, user_signals, referrals, next_oid,
                   scanner, handler, pushes, last_create, last_derive, check_log,
                   db_strict, register_log, strategy_log, writer, scan_loop,
                   sched_loop, workers,
                   start_log, chain, purge_log>>

InitPush ==
    /\ now = 0
    /\ users = [u \in 1..NumPushUsers |-> SubscriberDoc(PLAN_PREMIUM, AccessEnd, None)]
    /\ signals = {}
    /\ user_signals = {}
    /\ referrals = {}
    /\ next_oid = 1
    /\ scanner = Sleeping(0)
    /\ handler = Idle
    /\ pushes = {}
    /\ last_create = NoCreate
    /\ last_derive = NoDerive
    /\ check_log = NoCheck
    /\ db_strict = TRUE
    /\ register_log = NoRegister
    /\ strategy_log = NoEvaluation
    /\ writer = NoWrite
    /\ push_log = NoPush
    /\ scan_loop = NoScanLoop
    /\ sched_loop = NoSchedLoop
    /\ workers = NoWorkers
    /\ start_log = NoStart
    /\ chain = NoChain
    /\ purge_log = NoPurge

NextPush ==
    \/ \E signal_visibility \in Plans : NotifyStart(signal_visibility)
    \/ \E ok \in BOOLEAN : Send(ok)
    \/ \E user_id \in 1..NumPushUsers : \E ok \in BOOLEAN : AutoDelete(user_id, ok)

SpecPush == InitPush /\ [][NextPush]_vars

(***************************************************************************)
(* app/scanner.py: the control flow of scan_market_async with its          *)
(* failures.  Every call the loop makes (the cooldown query, the symbol    *)
(* list, the klines and the evaluator of one symbol, the duplicate query   *)
(* and create_base_signal, the push) either returns or raises.             *)
(***************************************************************************)
\* the state of the loop at the top of "while True", cycles counted from 1
AtGate(cycle) ==
    [pc |-> "gate", cycle |-> cycle, idx |-> 0, processed |-> <<>>,
     failed |-> {}, candidates |-> <<>>, minutes |-> 0, raised |-> FALSE]

\* await asyncio.sleep(SCAN_INTERVAL_SECONDS)
interval_sleep(loop) ==
    [loop EXCEPT !.pc = "sleep", !.minutes = SCAN_INTERVAL_MINUTES]

\* except Exception: logger.error(...); await asyncio.sleep(60)
on_cycle_error(loop) ==
    [loop EXCEPT !.pc = "sleep", !.minutes = SCAN_ERROR_SLEEP_MINUTES,
                 !.raised = TRUE]

\* the end of one iteration of "for symbol in symbols", and of the loop
next_symbol(loop) ==
    IF loop.idx < Len(Symbols)
    THEN [loop EXCEPT !.idx = @ + 1]
    ELSE IF Len(loop.candidates) < MIN_CANDIDATES
    THEN interval_sleep(loop)
    ELSE [loop EXCEPT !.pc = "create", !.idx = 1]

\* except Exception as e: logger.debug(...) inside the for loop
on_symbol_errorAbortsCycle(loop) == on_cycle_error(loop)
on_symbol_error(loop) == next_symbol(loop)

\* if telegram_signal_blocked(): sleep; symbols = get_active_futures_symbols()
LoopGate(outcome) ==
    /\ scan_loop.pc = "gate"
    /\ scan_loop' = IF outcome = "raise" THEN on_cycle_error(scan_loop)
                    ELSE IF outcome = "blocked" THEN interval_sleep(scan_loop)
                    ELSE [scan_loop EXCEPT !.pc = "symbols", !.idx = 1]
    /\ UNCHANGED <<now, users, signals, user_signals, referrals, next_oid,
                   scanner, handler, pushes, last_create, last_derive, check_log,
                   db_strict, register_log, strategy_log, writer, push_log,
                   sched_loop, workers,
                   start_log, chain, purge_log>>

\* one iteration of "for symbol in symbols": get_klines x 3 and mtf_strategy
LoopSymbol(outcome) ==
    /\ scan_loop.pc = "symbols"
    /\ LET symbol == Symbols[scan_loop.idx]
           tried == [scan_loop EXCEPT !.processed = Append(@, symbol)]
       IN  scan_loop' =
              IF outcome = "raise"
              THEN on_symbol_error([tried EXCEPT !.failed = @ \cup {symbol}])
              ELSE IF outcome = "candidate"
              THEN next_symbol([tried EXCEPT !.candidates = Append(@, symbol)])
              ELSE next_symbol(tried)
    /\ UNCHANGED <<now, users, signals, user_signals, referrals, next_oid,
                   scanner, handler, pushes, last_create, last_derive, check_log,
                   db_strict, register_log, strategy_log, writer, push_log,
                   sched_loop, workers,
                   start_log, chain, purge_log>>

\* one iteration of "for idx, signal in enumerate(top_3)": the duplicate
\* query and create_base_signal raise into the outer handler, the push has
\* a handler of its own
LoopCreate(outcome) ==
    /\ scan_loop.pc = "create"
    /\ scan_loop' = IF outcome = "raise" THEN on_cycle_error(scan_loop)
                    ELSE IF scan_loop.idx < MIN_CANDIDATES
                    THEN [scan_loop EXCEPT !.idx = @ + 1]
                    ELSE interval_sleep(scan_loop)
    /\ UNCHANGED <<now, users, signals, user_signals, referrals, next_oid,
                   scanner, handler, pushes, last_create, last_derive, check_log,
                   db_strict, register_log, strategy_log, writer, push_log,
                   sched_loop, workers,
                   start_log, chain, purge_log>>

\* the sleep returns: "continue", or the end of the body of "while True"
LoopWake ==
    /\ scan_loop.pc = "sleep"
    /\ scan_loop.cycle < MaxCycles
    /\ scan_loop' = AtGate(scan_loop.cycle + 1)
    /\ UNCHANGED <<now, users, signals, user_signals, referrals, next_oid,
                   scanner, handler, pushes, last_create, last_derive, check_log,
                   db_strict, register_log, strategy_log, writer, push_log,
                   sched_loop, workers,
                   start_log, chain, purge_log>>

InitScanLoop ==
    /\ now = 0
    /\ users = <<>>
    /\ signals = {}
    /\ user_signals = {}
    /\ referrals = {}
    /\ next_oid = 1
    /\ scanner = Sleeping(0)
    /\ handler = Idle
    /\ pushes = {}
    /\ last_create = NoCreate
    /\ last_derive = NoDerive
    /\ check_log = NoCheck
    /\ db_strict = TRUE
    /\ register_log = NoRegister
    /\ strategy_log = NoEvaluation
    /\ writer = NoWrite
    /\ push_log = NoPush
    /\ scan_loop = AtGate(1)
    /\ sched_loop = NoSchedLoop
    /\ workers = NoWorkers
    /\ start_log = NoStart
    /\ chain = NoChain
    /\ purge_log = NoPurge

NextScanLoop ==
    \/ \E outcome \in {"open", "blocked", "raise"} : LoopGate(outcome)
    \/ \E outcome \in {"candidate", "none", "raise"} : LoopSymbol(outcome)
    \/ \E outcome \in {"created", "skipped", "push_failed", "raise"} : LoopCreate(outcome)
    \/ LoopWake

SpecScanLoop == InitScanLoop /\ [][NextScanLoop]_vars

(***************************************************************************)
(* app/scheduler.py: the control flow of scheduler_loop.  An iteration     *)
(* (check_expired_plans, whose query is outside its try, and the periodic  *)
(* tasks) returns or raises; the task can be cancelled wherever it waits.  *)
(* Pauses are in seconds.                                                  *)
(***************************************************************************)
CHECK_INTERVAL_SECONDS == 300
max_errors_in_row == 5

\* iteration += 1; errors_in_row = 0; await asyncio.sleep(CHECK_INTERVAL_SECONDS)
on_iteration_ok(loop) ==
    [loop EXCEPT !.pc = "pause", !.iteration = @ + 1, !.errors_in_row = 0,
                 !.seconds = CHECK_INTERVAL_SECONDS]

\* except Exception: errors_in_row += 1, then the pause of 60 or of 30
on_iteration_errorShortPauseOnly(loop) ==
    [loop EXCEPT !.pc = "pause", !.errors_in_row = @ + 1, !.seconds = 30]
on_iteration_error(loop) ==
    [loop EXCEPT !.pc = "pause", !.errors_in_row = @ + 1,
                 !.seconds = IF loop.errors_in_row + 1 >= max_errors_in_row
                             THEN 60 ELSE 30]

SchedIterate(ok) ==
    /\ sched_loop.pc = "run"
    /\ ok => sched_loop.iteration < MaxIterations
    /\ sched_loop' = IF ok THEN on_iteration_ok(sched_loop)
                     ELSE on_iteration_error(sched_loop)
    /\ UNCHANGED <<now, users, signals, user_signals, referrals, next_oid,
                   scanner, handler, pushes, last_create, last_derive, check_log,
                   db_strict, register_log, strategy_log, writer, push_log,
                   scan_loop, workers,
                   start_log, chain, purge_log>>

\* the sleep returns; after the pause of 60: errors_in_row = 0
SchedWake ==
    /\ sched_loop.pc = "pause"
    /\ sched_loop' = [sched_loop EXCEPT
                         !.pc = "run",
                         !.errors_in_row = IF sched_loop.seconds = 60 THEN 0 ELSE @,
                         !.seconds = 0]
    /\ UNCHANGED <<now, users, signals, user_signals, referrals, next_oid,
                   scanner, handler, pushes, last_create, last_derive, check_log,
                   db_strict, register_log, strategy_log, writer, push_log,
                   scan_loop, workers,
                   start_log, chain, purge_log>>

\* asyncio.CancelledError: "break" inside the try, and out of the coroutine
\* from the sleeps of the except clause
SchedCancel ==
    /\ sched_loop.pc \in {"run", "pause"}
    /\ sched_loop' = [sched_loop EXCEPT !.pc = "ended", !.cancelled = TRUE]
    /\ UNCHANGED <<now, users, signals, user_signals, referrals, next_oid,
                   scanner, handler, pushes, last_create, last_derive, check_log,
                   db_strict, register_log, strategy_log, writer, push_log,
                   scan_loop, workers,
                   start_log, chain, purge_log>>

InitSchedLoop ==
    /\ now = 0
    /\ users = <<>>
    /\ signals = {}
    /\ user_signals = {}
    /\ referrals = {}
    /\ next_oid = 1
    /\ scanner = Sleeping(0)
    /\ handler = Idle
    /\ pushes = {}
    /\ last_create = NoCreate
    /\ last_derive = NoDerive
    /\ check_log = NoCheck
    /\ db_strict = TRUE
    /\ register_log = NoRegister
    /\ strategy_log = NoEvaluation
    /\ writer = NoWrite
    /\ push_log = NoPush
    /\ scan_loop = NoScanLoop
    /\ sched_loop = [NoSchedLoop EXCEPT !.pc = "run"]
    /\ workers = NoWorkers
    /\ start_log = NoStart
    /\ chain = NoChain
    /\ purge_log = NoPurge

NextSchedLoop ==
    \/ \E ok \in BOOLEAN : SchedIterate(ok)
    \/ SchedWake
    \/ SchedCancel

SpecSchedLoop == InitSchedLoop /\ [][NextSchedLoop]_vars

(***************************************************************************)
(* The body of the scanner's creation loop for one candidate, with the     *)
(* entry price drawn from EntryPrices (50000, 2468.0135, 100 and 0.5123 in *)
(* units of 0.0001; none of them puts a level exactly between two          *)
(* 4-decimal values, where round() follows the binary representation).     *)
(***************************************************************************)
EntryPrices == {500000000, 24680135, 1000000, 5123}

LevelsCreate(symbol, direction, entry_price) ==
    /\ next_oid <= MaxOid
    /\ LET levels == price_levels(entry_price, direction)
           out == create_base_signal(symbol, direction, entry_price,
                                     levels.stop_loss, levels.take_profits,
                                     PLAN_PREMIUM)
       IN  /\ out.ok
           /\ signals' = out.signals
           /\ user_signals' = out.user_signals
           /\ next_oid' = out.next_oid
    /\ UNCHANGED <<now, users, referrals, scanner, handler, pushes, last_create,
                   last_derive, check_log, db_strict, register_log, strategy_log,
                   writer, push_log, scan_loop, sched_loop, workers,
                   start_log, chain, purge_log>>

InitLevels == InitApi

NextLevels ==
    \/ \E symbol \in {"BTCUSDT", "XRPUSDT"} : \E direction \in {"LONG", "SHORT"} :
       \E entry_price \in EntryPrices : LevelsCreate(symbol, direction, entry_price)
    \/ Tick

SpecLevels == InitLevels /\ [][NextLevels]_vars

(***************************************************************************)
(* app/init_db.py run on an empty database, then the bot: the store starts *)
(* with the test user the script inserts (user 1 here)                     *)
(***************************************************************************)
\* the document init_db.py inserts: plan "PREMIUM", trial_end in 7 days and
\* plan_end in 30 days, counters and totals 0
test_user ==
    [SubscriberDoc("PREMIUM", 30 * DayMinutes, 7 * DayMinutes) EXCEPT
        !.ref_plus_total = 0, !.ref_premium_total = 0]

InitSeeded ==
    /\ now = 0
    /\ users = <<test_user>>
    /\ signals = {}
    /\ user_signals = {}
    /\ referrals = {}
    /\ next_oid = 1
    /\ scanner = Sleeping(0)
    /\ handler = Idle
    /\ pushes = {}
    /\ last_create = NoCreate
    /\ last_derive = NoDerive
    /\ check_log = NoCheck
    /\ db_strict \in BOOLEAN
    /\ register_log = NoRegister
    /\ strategy_log = NoEvaluation
    /\ writer = NoWrite
    /\ push_log = NoPush
    /\ scan_loop = NoScanLoop
    /\ sched_loop = NoSchedLoop
    /\ workers = NoWorkers
    /\ start_log = NoStart
    /\ chain = NoChain
    /\ purge_log = NoPurge

NextSeeded == NextRef

SpecSeeded == InitSeeded /\ [][NextSeeded]_vars

(***************************************************************************)
(* Two plan activations of handle_menu in flight at once, each running     *)
(* activate_plus / activate_premium (get_user, save_user, then             *)
(* register_valid_referral and check_ref_rewards) and then the handler's   *)
(* own register_valid_referral, one database operation per step.  The      *)
(* grant of a reward (the nested activation or extension of the referrer)  *)
(* is taken in one step.  The clock does not move while they run.          *)
(***************************************************************************)
WorkerIds == {1, 2}

\* the work of handle_menu for one choice, run alone
menu_activation(st, target_user_id, plan) ==
    LET act == ActivatePaid(st, target_user_id, plan)
        plan_name == IF plan = PLAN_PLUS THEN "PLUS" ELSE "PREMIUM"
    IN  IF act.ok
        THEN register_valid_referral(act.st, target_user_id, plan_name).st
        ELSE act.st

Dispatched(target_user_id, plan) ==
    [pc |-> "get_user", target |-> target_user_id, plan |-> plan, call |-> 1,
     user |-> NoDoc, referrer_id |-> None, referrer |-> NoDoc, snap |-> NoDoc,
     kind |-> "none", plus |-> 0, premium |-> 0]

\* the activated_plan argument: the plan constant from activate_plus /
\* activate_premium, "PLUS" / "PREMIUM" from the handler
activated_plan_of(wr) ==
    IF wr.call = 1 THEN wr.plan
    ELSE IF wr.plan = PLAN_PLUS THEN "PLUS" ELSE "PREMIUM"

\* register_valid_referral returns: into activate_plus / activate_premium
\* and on to the handler's own call, or out of the handler
reg_return(wr) ==
    IF wr.call = 1 THEN [wr EXCEPT !.call = 2, !.pc = "reg_referred"]
    ELSE [wr EXCEPT !.pc = "done"]

\* the branch of check_ref_rewards the snapshot selects, and what it spends
reward_ofAlwaysActivates(snap) ==
    IF snap.ref_premium_valid >= 5
    THEN [kind |-> "activate_premium", plus |-> 0, premium |-> 5]
    ELSE IF snap.ref_plus_valid >= 5
    THEN [kind |-> "activate_plus", plus |-> 5, premium |-> 0]
    ELSE [kind |-> "none", plus |-> 0, premium |-> 0]
reward_of(snap) ==
    LET none == [kind |-> "none", plus |-> 0, premium |-> 0]
    IN  IF snap.plan = PLAN_FREE
        THEN IF snap.ref_premium_valid >= 5
             THEN [kind |-> "activate_premium", plus |-> 0, premium |-> 5]
             ELSE IF snap.ref_plus_valid >= 5
             THEN [kind |-> "activate_plus", plus |-> 5, premium |-> 0]
             ELSE none
        ELSE IF snap.plan = PLAN_PLUS
        THEN IF snap.ref_premium_valid >= 5
             THEN [kind |-> "activate_premium", plus |-> 0, premium |-> 5]
             ELSE IF snap.ref_plus_valid >= 5
             THEN [kind |-> "extend", plus |-> 5, premium |-> 0]
             ELSE none
        ELSE IF snap.plan = PLAN_PREMIUM
        THEN IF snap.ref_premium_valid >= 5
             THEN [kind |-> "extend", plus |-> 0, premium |-> 5]
             ELSE IF snap.ref_plus_valid >= 10
             THEN [kind |-> "extend", plus |-> 10, premium |-> 0]
             ELSE none
        ELSE none

\* user = get_user(user_id)
ActGetUser(w) ==
    /\ workers[w].pc = "get_user"
    /\ LET wr == workers[w]
       IN  workers' = [workers EXCEPT ![w] =
              IF wr.target \in DOMAIN users
              THEN [wr EXCEPT !.pc = "save_user", !.user = users[wr.target]]
              ELSE [wr EXCEPT !.pc = "done"]]
    /\ UNCHANGED <<now, users, signals, user_signals, referrals, next_oid,
                   scanner, handler, pushes, last_create, last_derive, check_log,
                   db_strict, register_log, strategy_log, writer, push_log,
                   scan_loop, sched_loop,
                   start_log, chain, purge_log>>

\* user = activate_plan(user, plan, days); save_user(user)
ActSaveUser(w) ==
    /\ workers[w].pc = "save_user"
    /\ users' = [users EXCEPT ![workers[w].target] =
                    SetDoc(@, activate_plan(workers[w].user, workers[w].plan,
                                            PLAN_DURATION_DAYS))]
    /\ workers' = [workers EXCEPT ![w].pc = "reg_referred"]
    /\ UNCHANGED <<now, signals, user_signals, referrals, next_oid, scanner,
                   handler, pushes, last_create, last_derive, check_log,
                   db_strict, register_log, strategy_log, writer, push_log,
                   scan_loop, sched_loop,
                   start_log, chain, purge_log>>

\* steps 1 to 3: the referred user and its referred_by
RegFindReferred(w) ==
    /\ workers[w].pc = "reg_referred"
    /\ LET wr == workers[w]
       IN  workers' = [workers EXCEPT ![w] =
              IF wr.target \notin DOMAIN users THEN reg_return(wr)
              ELSE LET referrer_id == users[wr.target].referred_by
                   IN  IF referrer_id = None \/ referrer_id = wr.target
                       THEN reg_return(wr)
                       ELSE [wr EXCEPT !.pc = "reg_referrer",
                                       !.referrer_id = referrer_id]]
    /\ UNCHANGED <<now, users, signals, user_signals, referrals, next_oid,
                   scanner, handler, pushes, last_create, last_derive, check_log,
                   db_strict, register_log, strategy_log, writer, push_log,
                   scan_loop, sched_loop,
                   start_log, chain, purge_log>>

\* step 4: referrer = users_col.find_one({"user_id": referrer_id})
RegFindReferrer(w) ==
    /\ workers[w].pc = "reg_referrer"
    /\ LET wr == workers[w]
       IN  workers' = [workers EXCEPT ![w] =
              IF wr.referrer_id \notin DOMAIN users THEN reg_return(wr)
              ELSE [wr EXCEPT !.pc = "reg_existing",
                              !.referrer = users[wr.referrer_id]]]
    /\ UNCHANGED <<now, users, signals, user_signals, referrals, next_oid,
                   scanner, handler, pushes, last_create, last_derive, check_log,
                   db_strict, register_log, strategy_log, writer, push_log,
                   scan_loop, sched_loop,
                   start_log, chain, purge_log>>

\* step 5: existing = refs_col.find_one({referrer_id, referred_id})
RegFindExisting(w) ==
    /\ workers[w].pc = "reg_existing"
    /\ LET wr == workers[w]
       IN  workers' = [workers EXCEPT ![w] =
              IF already_registered(referrals, wr.referrer_id, wr.target)
              THEN reg_return(wr)
              ELSE [wr EXCEPT !.pc = "reg_insert"]]
    /\ UNCHANGED <<now, users, signals, user_signals, referrals, next_oid,
                   scanner, handler, pushes, last_create, last_derive, check_log,
                   db_strict, register_log, strategy_log, writer, push_log,
                   scan_loop, sched_loop,
                   start_log, chain, purge_log>>

\* step 6: refs_col.insert_one(ref_doc)
RegInsert(w) ==
    /\ workers[w].pc = "reg_insert"
    /\ referrals' = referrals \cup
          {[referrer_id |-> workers[w].referrer_id,
            referred_id |-> workers[w].target,
            activated_plan |-> activated_plan_of(workers[w]),
            activated_at |-> now]}
    /\ workers' = [workers EXCEPT ![w].pc = "reg_count"]
    /\ UNCHANGED <<now, users, signals, user_signals, next_oid, scanner, handler,
                   pushes, last_create, last_derive, check_log, db_strict,
                   register_log, strategy_log, writer, push_log, scan_loop,
                   sched_loop,
                   start_log, chain, purge_log>>

\* step 7: the update with $inc and $set, rejected by a strict store (the
\* except clause then returns False); no update for "PLUS" / "PREMIUM"
RegCount(w) ==
    /\ workers[w].pc = "reg_count"
    /\ LET wr == workers[w]
           activated_plan == activated_plan_of(wr)
           counted == activated_plan \in {PLAN_PLUS, PLAN_PREMIUM}
       IN  /\ users' =
                 IF ~counted \/ db_strict THEN users
                 ELSE IF activated_plan = PLAN_PLUS
                 THEN [users EXCEPT ![wr.referrer_id] =
                         [SetDoc(@, wr.referrer) EXCEPT
                            !.ref_plus_valid = @ + 1,
                            !.ref_plus_total = Total(@) + 1]]
                 ELSE [users EXCEPT ![wr.referrer_id] =
                         [SetDoc(@, wr.referrer) EXCEPT
                            !.ref_premium_valid = @ + 1,
                            !.ref_premium_total = Total(@) + 1]]
           /\ workers' = [workers EXCEPT ![w] =
                 IF counted /\ db_strict THEN reg_return(@)
                 ELSE [@ EXCEPT !.pc = "chk_find"]]
    /\ UNCHANGED <<now, signals, user_signals, referrals, next_oid, scanner,
                   handler, pushes, last_create, last_derive, check_log,
                   db_strict, register_log, strategy_log, writer, push_log,
                   scan_loop, sched_loop,
                   start_log, chain, purge_log>>

\* check_ref_rewards: referrer = find_one(...), is_plan_active, the counts
ChkFind(w) ==
    /\ workers[w].pc = "chk_find"
    /\ LET wr == workers[w]
       IN  workers' = [workers EXCEPT ![w] =
              IF wr.referrer_id \notin DOMAIN users
                    \/ ~is_plan_active(users[wr.referrer_id])
                    \/ reward_of(users[wr.referrer_id]).kind = "none"
              THEN reg_return(wr)
              ELSE [wr EXCEPT !.pc = "chk_grant",
                              !.snap = users[wr.referrer_id],
                              !.kind = reward_of(users[wr.referrer_id]).kind,
                              !.plus = reward_of(users[wr.referrer_id]).plus,
                              !.premium = reward_of(users[wr.referrer_id]).premium]]
    /\ UNCHANGED <<now, users, signals, user_signals, referrals, next_oid,
                   scanner, handler, pushes, last_create, last_derive, check_log,
                   db_strict, register_log, strategy_log, writer, push_log,
                   scan_loop, sched_loop,
                   start_log, chain, purge_log>>

\* if activate_premium(...) / activate_plus(...) / extend_current_plan(...)
ChkGrant(w) ==
    /\ workers[w].pc = "chk_grant"
    /\ LET wr == workers[w]
           res == IF wr.kind = "activate_premium"
                  THEN activate_premium(Store, wr.referrer_id)
                  ELSE IF wr.kind = "activate_plus"
                  THEN activate_plus(Store, wr.referrer_id)
                  ELSE extend_current_plan(Store, wr.referrer_id, 30)
       IN  /\ users' = res.st.users
           /\ referrals' = res.st.referrals
           /\ workers' = [workers EXCEPT ![w] =
                 IF res.ok THEN [@ EXCEPT !.pc = "chk_spend"] ELSE reg_return(@)]
    /\ UNCHANGED <<now, signals, user_signals, next_oid, scanner, handler,
                   pushes, last_create, last_derive, check_log, db_strict,
                   register_log, strategy_log, writer, push_log, scan_loop,
                   sched_loop,
                   start_log, chain, purge_log>>

\* update_one({"$inc": {"ref_..._valid": -5 | -10}})
ChkSpend(w) ==
    /\ workers[w].pc = "chk_spend"
    /\ users' = [users EXCEPT
                    ![workers[w].referrer_id].ref_plus_valid = @ - workers[w].plus,
                    ![workers[w].referrer_id].ref_premium_valid =
                        @ - workers[w].premium]
    /\ workers' = [workers EXCEPT ![w].pc = "chk_stamp"]
    /\ UNCHANGED <<now, signals, user_signals, referrals, next_oid, scanner,
                   handler, pushes, last_create, last_derive, check_log,
                   db_strict, register_log, strategy_log, writer, push_log,
                   scan_loop, sched_loop,
                   start_log, chain, purge_log>>

\* if reward_applied: update_one({"$set": update_timestamp(referrer)})
ChkStamp(w) ==
    /\ workers[w].pc = "chk_stamp"
    /\ users' = [users EXCEPT ![workers[w].referrer_id] =
                    SetDoc(@, workers[w].snap)]
    /\ workers' = [workers EXCEPT ![w] = reg_return(@)]
    /\ UNCHANGED <<now, signals, user_signals, referrals, next_oid, scanner,
                   handler, pushes, last_create, last_derive, check_log,
                   db_strict, register_log, strategy_log, writer, push_log,
                   scan_loop, sched_loop,
                   start_log, chain, purge_log>>

\* the referrer (user 1) at dispatch: on trial, or on a running plus plan
\* and, where the store counts, four premium referrals into the ladder
WorkerReferrers(strict) ==
    {new_user(None),
     [ReferrerDoc(PLAN_PLUS, PLAN_DURATION_DAYS * DayMinutes, None, 0,
                  IF strict THEN 0 ELSE 4)
         EXCEPT !.referred_by = None]}

\* register_log.before keeps the store the two calls were dispatched on
InitWorkers ==
    /\ now = 0
    /\ db_strict \in BOOLEAN
    /\ \E referrer \in WorkerReferrers(db_strict) :
          /\ users = <<referrer, new_user(1)>>
          /\ referrals = CountedReferrals(1, 0, referrer.ref_premium_valid)
    /\ register_log = [NoRegister EXCEPT !.before = Store]
    /\ \E t1 \in {1, 2} : \E t2 \in {1, 2} :
       \E p1 \in {PLAN_PLUS, PLAN_PREMIUM} : \E p2 \in {PLAN_PLUS, PLAN_PREMIUM} :
          workers = <<Dispatched(t1, p1), Dispatched(t2, p2)>>
    /\ start_log = NoStart
    /\ chain = NoChain
    /\ purge_log = NoPurge
    /\ signals = {}
    /\ user_signals = {}
    /\ next_oid = 1
    /\ scanner = Sleeping(0)
    /\ handler = Idle
    /\ pushes = {}
    /\ last_create = NoCreate
    /\ last_derive = NoDerive
    /\ check_log = NoCheck
    /\ strategy_log = NoEvaluation
    /\ writer = NoWrite
    /\ push_log = NoPush
    /\ scan_loop = NoScanLoop
    /\ sched_loop = NoSchedLoop

NextWorkers ==
    \E w \in WorkerIds :
        \/ ActGetUser(w)
        \/ ActSaveUser(w)
        \/ RegFindReferred(w)
        \/ RegFindReferrer(w)
        \/ RegFindExisting(w)
        \/ RegInsert(w)
        \/ RegCount(w)
        \/ ChkFind(w)
        \/ ChkGrant(w)
        \/ ChkSpend(w)
        \/ ChkStamp(w)

SpecWorkers == InitWorkers /\ [][NextWorkers]_vars

(***************************************************************************)
(* app/bot.py start handled for any sender, stored or not, on a store that *)
(* already holds a referrer close to its reward thresholds, together with  *)
(* activations (each with its referral registration and reward check) and  *)
(* the expiry sweep                                                        *)
(***************************************************************************)
ContactUserIds == 1..NumContactUsers

\* the referred_by the handler computes from context.args
start_referred_by(docs, user_id, ref_user_id) ==
    IF /\ ref_user_id # 0
       /\ user_id \notin DOMAIN docs
       /\ ref_user_id # user_id
       /\ ref_user_id \in DOMAIN docs
    THEN ref_user_id
    ELSE None

\* what the handler leaves in the users collection
start_storeRewrites(docs, user_id, ref_user_id) ==
    [v \in DOMAIN docs \cup {user_id} |->
        IF v # user_id THEN docs[v]
        ELSE IF v \in DOMAIN docs
        THEN [docs[v] EXCEPT !.referred_by =
                 IF ref_user_id # 0 /\ ref_user_id # user_id
                    /\ ref_user_id \in DOMAIN docs
                 THEN ref_user_id ELSE @]
        ELSE new_user(start_referred_by(docs, user_id, ref_user_id))]
start_store(docs, user_id, ref_user_id) ==
    IF user_id \in DOMAIN docs
    THEN docs
    ELSE [v \in DOMAIN docs \cup {user_id} |->
             IF v = user_id
             THEN new_user(start_referred_by(docs, user_id, ref_user_id))
             ELSE docs[v]]

StartCommand(user_id, ref_user_id) ==
    /\ \A v \in ContactUserIds : v < user_id => v \in DOMAIN users
    /\ users' = start_store(users, user_id, ref_user_id)
    /\ start_log' = [user_id |-> user_id, ref_user_id |-> ref_user_id,
                     existing_user |-> user_id \in DOMAIN users,
                     referred_by |-> start_referred_by(users, user_id, ref_user_id)]
    /\ UNCHANGED <<now, signals, user_signals, referrals, next_oid, scanner,
                   handler, pushes, last_create, last_derive, check_log, db_strict,
                   register_log, strategy_log, writer, push_log, scan_loop,
                   sched_loop, workers, chain, purge_log>>

\* the referrer (user 2) is one premium referral short of the first threshold
InitContact ==
    /\ InitRewards
    /\ users[2].ref_plus_valid = 0
    /\ users[2].ref_premium_valid = 4

NextContact ==
    \/ \E user_id \in ContactUserIds : \E ref_user_id \in 0..NumContactUsers :
          StartCommand(user_id, ref_user_id)
    \/ \E plan \in {PLAN_PLUS, PLAN_PREMIUM} : AdminActivate(NumContactUsers, plan)
    \/ ExpireSweep
    \/ RefTick

SpecContact == InitContact /\ [][NextContact]_vars

(***************************************************************************)
(* app/scheduler.py cleanup_old_signals run at any time between direct     *)
(* calls of create_base_signal and generate_user_signal, the clock moving  *)
(* by days                                                                 *)
(***************************************************************************)
PurgeStepDays == {3, 4}

\* delete_many({"created_at": {"$lt": now - 7 days}}) on signals and
\* delete_many({"created_at": {"$lt": now - 3 days}}) on user_signals
cleanup_old_signalsByValidity(docs, days) ==
    {d \in docs : ~(d.telegram_valid_until < now)}
cleanup_old_signals(docs, days) ==
    {d \in docs : ~(d.created_at < now - days * DayMinutes)}

Purge ==
    /\ signals' = cleanup_old_signals(signals, 7)
    /\ user_signals' = cleanup_old_signals(user_signals, 3)
    /\ purge_log' = [at |-> now,
                     signals |-> signals \ cleanup_old_signals(signals, 7),
                     user_signals |->
                        user_signals \ cleanup_old_signals(user_signals, 3)]
    /\ UNCHANGED <<now, users, referrals, next_oid, scanner, handler, pushes,
                   last_create, last_derive, check_log, db_strict, register_log,
                   strategy_log, writer, push_log, scan_loop, sched_loop,
                   workers, start_log, chain>>

PurgeTick(days) ==
    /\ now + days * DayMinutes <= MaxPurgeDays * DayMinutes
    /\ now' = now + days * DayMinutes
    /\ UNCHANGED <<users, signals, user_signals, referrals, next_oid, scanner,
                   handler, pushes, last_create, last_derive, check_log, db_strict,
                   register_log, strategy_log, writer, push_log, scan_loop,
                   sched_loop, workers, start_log, chain, purge_log>>

InitPurge == InitApi

NextPurge ==
    \/ \E in \in ApiInputs : ApiCreate(in[1], in[2], in[3])
    \/ ApiDerive(1)
    \/ Purge
    \/ \E days \in PurgeStepDays : PurgeTick(days)

SpecPurge == InitPurge /\ [][NextPurge]_vars

(***************************************************************************)
(* The maintenance loop's expiry sweep over users whose plans run out      *)
(* together, with re-activations by the administrator.  scheduler_loop     *)
(* calls check_expired_plans in every iteration of "while True", so the    *)
(* sweep is taken again and again while it has a user to reset (weak       *)
(* fairness); no database call fails.                                      *)
(***************************************************************************)
ExpiryUserIds == 1..NumExpiryUsers

\* on a paid plan that ends on day 10 or day 30, or still on trial
ExpiryStates ==
    {SubscriberDoc(PLAN_PLUS, 10 * DayMinutes, None),
     SubscriberDoc(PLAN_PREMIUM, 10 * DayMinutes, None),
     SubscriberDoc(PLAN_PREMIUM, PLAN_DURATION_DAYS * DayMinutes, None),
     SubscriberDoc(PLAN_FREE, None, TRIAL_DAYS * DayMinutes)}

InitExpiry ==
    /\ now = 0
    /\ users \in [ExpiryUserIds -> ExpiryStates]
    /\ signals = {}
    /\ user_signals = {}
    /\ referrals = {}
    /\ next_oid = 1
    /\ scanner = Sleeping(0)
    /\ handler = Idle
    /\ pushes = {}
    /\ last_create = NoCreate
    /\ last_derive = NoDerive
    /\ check_log = NoCheck
    /\ db_strict = TRUE
    /\ register_log = NoRegister
    /\ strategy_log = NoEvaluation
    /\ writer = NoWrite
    /\ push_log = NoPush
    /\ scan_loop = NoScanLoop
    /\ sched_loop = NoSchedLoop
    /\ workers = NoWorkers
    /\ start_log = NoStart
    /\ chain = NoChain
    /\ purge_log = NoPurge

NextExpiry ==
    \/ \E u \in ExpiryUserIds : AdminActivate(u, PLAN_PLUS)
    \/ ExpireSweep
    \/ RefTick

SpecExpiry == InitExpiry /\ [][NextExpiry]_vars /\ WF_vars(ExpireSweep)

(***************************************************************************)
(* One activation followed call by call: activate_plus / activate_premium  *)
(* call register_valid_referral, which calls check_ref_rewards, which      *)
(* calls activate_plus / activate_premium of the referrer.  chain.stack    *)
(* holds the frames of the calls in progress, the innermost last.  The     *)
(* referred_by links of the store are drawn freely: chains as app/bot.py   *)
(* start builds them, and also self-references and cycles.                 *)
(***************************************************************************)
ChainUserIds == 1..NumChainUsers

Frame(fn, user_id, plan) ==
    [fn |-> fn, user_id |-> user_id, plan |-> plan, stage |-> 0,
     snap |-> NoDoc, plus |-> 0, premium |-> 0]

Top == chain.stack[Len(chain.stack)]

\* return from the innermost call
Return(stack) == SubSeq(stack, 1, Len(stack) - 1)

\* the innermost call waits (stage 1) for the call it makes
Call(stack, waiting, frame) ==
    Append([stack EXCEPT ![Len(stack)] = [waiting EXCEPT !.stage = 1]], frame)

Running(stack, calls) ==
    [chain EXCEPT !.pc = IF stack = <<>> THEN "done" ELSE "run",
                  !.stack = stack, !.calls = calls]

\* activate_plus / activate_premium: get_user, activate_plan, save_user and
\* the call of register_valid_referral; then return True
ChainActivate ==
    /\ chain.stack # <<>>
    /\ Top.fn = "activate"
    /\ chain.calls < MaxCalls
    /\ IF Top.stage = 1 \/ Top.user_id \notin DOMAIN users
       THEN /\ chain' = Running(Return(chain.stack), chain.calls)
            /\ UNCHANGED users
       ELSE /\ users' = [users EXCEPT ![Top.user_id] =
                            SetDoc(@, activate_plan(@, Top.plan, PLAN_DURATION_DAYS))]
            /\ chain' = Running(Call(chain.stack, Top,
                                     Frame("register", Top.user_id, Top.plan)),
                                chain.calls + 1)
    /\ UNCHANGED <<now, signals, user_signals, referrals, next_oid, scanner,
                   handler, pushes, last_create, last_derive, check_log, db_strict,
                   register_log, strategy_log, writer, push_log, scan_loop,
                   sched_loop, workers, start_log, purge_log>>

\* register_valid_referral: the guards, insert_one of the record, the
\* counter update and the call of check_ref_rewards; then return True
ChainRegister ==
    /\ chain.stack # <<>>
    /\ Top.fn = "register"
    /\ chain.calls < MaxCalls
    /\ LET referred_user_id == Top.user_id
           referrer_id == IF referred_user_id \in DOMAIN users
                          THEN users[referred_user_id].referred_by ELSE None
           refused == \/ Top.stage = 1
                      \/ referred_user_id \notin DOMAIN users
                      \/ referrer_id = None
                      \/ referrer_id = referred_user_id
                      \/ referrer_id \notin DOMAIN users
                      \/ already_registered(referrals, referrer_id, referred_user_id)
       IN  IF refused
           THEN /\ chain' = Running(Return(chain.stack), chain.calls)
                /\ UNCHANGED <<users, referrals>>
           ELSE /\ referrals' = referrals \cup
                      {[referrer_id |-> referrer_id, referred_id |-> referred_user_id,
                        activated_plan |-> Top.plan, activated_at |-> now]}
                /\ IF db_strict
                   \* the update raises: except Exception: return False
                   THEN /\ chain' = Running(Return(chain.stack), chain.calls)
                        /\ UNCHANGED users
                   ELSE /\ users' = [users EXCEPT ![referrer_id] =
                               IF Top.plan = PLAN_PLUS
                               THEN [@ EXCEPT !.ref_plus_valid = @ + 1,
                                              !.ref_plus_total = Total(@) + 1]
                               ELSE [@ EXCEPT !.ref_premium_valid = @ + 1,
                                              !.ref_premium_total = Total(@) + 1]]
                        /\ chain' = Running(Call(chain.stack, Top,
                                                 Frame("check", referrer_id, Top.plan)),
                                            chain.calls + 1)
    /\ UNCHANGED <<now, signals, user_signals, next_oid, scanner,
                   handler, pushes, last_create, last_derive, check_log, db_strict,
                   register_log, strategy_log, writer, push_log, scan_loop,
                   sched_loop, workers, start_log, purge_log>>

\* check_ref_rewards: the branch taken on the referrer read at the start,
\* with the call of activate_plus / activate_premium or extend_current_plan;
\* then the $inc that spends the count and the $set of the document read at
\* the start
ChainCheck ==
    /\ chain.stack # <<>>
    /\ Top.fn = "check"
    /\ chain.calls < MaxCalls
    /\ LET referrer_id == Top.user_id
           spent(docs, snap, plus, premium) ==
               [docs EXCEPT ![referrer_id] =
                   SetDoc([@ EXCEPT !.ref_plus_valid = @ - plus,
                                    !.ref_premium_valid = @ - premium], snap)]
       IN  IF Top.stage = 1
           THEN /\ users' = spent(users, Top.snap, Top.plus, Top.premium)
                /\ chain' = Running(Return(chain.stack), chain.calls)
           ELSE IF referrer_id \notin DOMAIN users \/ ~is_plan_active(users[referrer_id])
           THEN /\ chain' = Running(Return(chain.stack), chain.calls)
                /\ UNCHANGED users
           ELSE LET referrer == users[referrer_id]
                    reward == reward_of(referrer)
                IN  IF reward.kind = "none"
                    THEN /\ chain' = Running(Return(chain.stack), chain.calls)
                         /\ UNCHANGED users
                    ELSE IF reward.kind = "extend"
                    THEN /\ users' = spent(extend_current_plan(Store, referrer_id, 30).st.users,
                                           referrer, reward.plus, reward.premium)
                         /\ chain' = Running(Return(chain.stack), chain.calls)
                    ELSE /\ chain' = Running(
                                Call(chain.stack,
                                     [Top EXCEPT !.snap = referrer,
                                                 !.plus = reward.plus,
                                                 !.premium = reward.premium],
                                     Frame("activate", referrer_id,
                                           IF reward.kind = "activate_plus"
                                           THEN PLAN_PLUS ELSE PLAN_PREMIUM)),
                                chain.calls + 1)
                         /\ UNCHANGED users
    /\ UNCHANGED <<now, signals, user_signals, referrals, next_oid, scanner,
                   handler, pushes, last_create, last_derive, check_log, db_strict,
                   register_log, strategy_log, writer, push_log, scan_loop,
                   sched_loop, workers, start_log, purge_log>>

\* every user on a running plus plan, four premium referrals counted
InitChain ==
    /\ now = 0
    /\ db_strict \in BOOLEAN
    /\ \E links \in [ChainUserIds -> ChainUserIds \cup {None}] :
          users = [u \in ChainUserIds |->
                      [ReferrerDoc(PLAN_PLUS, PLAN_DURATION_DAYS * DayMinutes, None, 0, 4)
                          EXCEPT !.referred_by = links[u]]]
    /\ referrals = UNION {CountedReferrals(u, 0, 4) : u \in ChainUserIds}
    /\ \E user_id \in ChainUserIds : \E plan \in {PLAN_PLUS, PLAN_PREMIUM} :
          chain = [pc |-> "run", stack |-> <<Frame("activate", user_id, plan)>>,
                   calls |-> 1, before |-> Store]
    /\ signals = {}
    /\ user_signals = {}
    /\ next_oid = 1
    /\ scanner = Sleeping(0)
    /\ handler = Idle
    /\ pushes = {}
    /\ last_create = NoCreate
    /\ last_derive = NoDerive
    /\ check_log = NoCheck
    /\ register_log = NoRegister
    /\ strategy_log = NoEvaluation
    /\ writer = NoWrite
    /\ push_log = NoPush
    /\ scan_loop = NoScanLoop
    /\ sched_loop = NoSchedLoop
    /\ workers = NoWorkers
    /\ start_log = NoStart
    /\ purge_log = NoPurge

NextChain ==
    \/ ChainActivate
    \/ ChainRegister
    \/ ChainCheck

\* the thread that runs the activation keeps running
SpecChain == InitChain /\ [][NextChain]_vars /\ WF_vars(NextChain)

(***************************************************************************)
(* The fan-out and the view handler, one store operation per step          *)
(* app/signals.py: create_base_signal -> generate_user_signal_for_plan     *)
(*                 -> generate_user_signal                                 *)
(* app/handlers.py: handle_view_signals -> generate_user_signal            *)
(* The scanner runs in its own thread, so its finds and inserts interleave *)
(* with those of a view request.                                           *)
(***************************************************************************)
\* for user in users_collection().find({}): the ids in the cursor's order
RECURSIVE Ascending(_)
Ascending(ids) ==
    IF ids = {} THEN <<>>
    ELSE LET least == CHOOSE u \in ids : \A v \in ids : u <= v
         IN  <<least>> \o Ascending(ids \ {least})

AfterCreate ==
    IF scanner.idx = Len(scanner.top_3)
    THEN Sleeping(SCAN_INTERVAL_MINUTES)
    ELSE [pc |-> "create", candidates |-> scanner.candidates,
          top_3 |-> scanner.top_3, idx |-> scanner.idx + 1,
          wake_at |-> scanner.wake_at, started_at |-> scanner.started_at]

FanOutPosition(pc, base, fan) ==
    [pc |-> pc, candidates |-> scanner.candidates, top_3 |-> scanner.top_3,
     idx |-> scanner.idx, wake_at |-> scanner.wake_at,
     started_at |-> scanner.started_at, base |-> base, fan |-> fan]

\* scanner.py: recent_duplicate_exists, then create_base_signal up to and
\* including the insert of the BaseSignal
ScanInsertBase ==
    /\ scanner.pc = "create"
    /\ LET c == scanner.top_3[scanner.idx]
           visibility == plan_map[scanner.idx]
           levels == price_levels(c.entry_price, c.direction)
           base == BaseSignalDoc(next_oid, c.symbol, c.direction, c.entry_price,
                                 levels.stop_loss, levels.take_profits, visibility)
       IN  IF recent_duplicate_exists(c.symbol, c.direction, visibility)
           THEN /\ scanner' = AfterCreate
                /\ UNCHANGED <<signals, next_oid, last_create>>
           ELSE /\ last_create' = CreateRecord(c.symbol, c.direction, visibility,
                                               ~telegram_signal_blocked(c.symbol))
                /\ IF telegram_signal_blocked(c.symbol)
                   THEN /\ scanner' = FanOutPosition("notify", base, <<>>)
                        /\ UNCHANGED <<signals, next_oid>>
                   ELSE /\ signals' = signals \cup {base}
                        /\ next_oid' = next_oid + 1
                        /\ scanner' = FanOutPosition("fan_find", base,
                                                     Ascending(DOMAIN users))
    /\ UNCHANGED <<now, users, user_signals, referrals, handler, pushes, last_derive,
                   check_log, db_strict, register_log, strategy_log, writer,
                   push_log, scan_loop, sched_loop, workers,
                   start_log, chain, purge_log>>

\* generate_user_signal_for_plan, one user: the plan tests and the find_one
\* for a live record of (user, symbol)
FanOutFind ==
    /\ scanner.pc = "fan_find"
    /\ scanner.fan # <<>>
    /\ LET u == Head(scanner.fan)
           wanted == /\ ~(users[u].plan_end # None /\ users[u].plan_end < now)
                     /\ (is_admin(u) \/ users[u].plan = scanner.base.visibility)
                     /\ LiveUserSignals(u, scanner.base.symbol) = {}
       IN  scanner' = IF wanted
                      THEN [scanner EXCEPT !.pc = "fan_insert"]
                      ELSE [scanner EXCEPT !.fan = Tail(@)]
    /\ UNCHANGED <<now, users, signals, user_signals, referrals, next_oid, handler,
                   pushes, last_create, last_derive, check_log, db_strict,
                   register_log, strategy_log, writer, push_log, scan_loop,
                   sched_loop, workers,
                   start_log, chain, purge_log>>

\* generate_user_signal, called by the fan-out: its own find_one and the
\* insert_one
FanOutInsert ==
    /\ scanner.pc = "fan_insert"
    /\ LET u == Head(scanner.fan)
           got == generate_user_signal(scanner.base, u, next_oid, token_hex(next_oid))
       IN  /\ user_signals' = IF got.inserted
                              THEN user_signals \cup {got.doc}
                              ELSE user_signals
           /\ next_oid' = IF got.inserted THEN next_oid + 1 ELSE next_oid
           /\ scanner' = [scanner EXCEPT !.pc = "fan_find", !.fan = Tail(@)]
    /\ UNCHANGED <<now, users, signals, referrals, handler, pushes, last_create,
                   last_derive, check_log, db_strict, register_log, strategy_log,
                   writer, push_log, scan_loop, sched_loop, workers,
                   start_log, chain, purge_log>>

\* the fan-out is over and create_base_signal has returned
FanOutReturn ==
    /\ scanner.pc = "fan_find"
    /\ scanner.fan = <<>>
    /\ scanner' = [scanner EXCEPT !.pc = "notify"]
    /\ UNCHANGED <<now, users, signals, user_signals, referrals, next_oid, handler,
                   pushes, last_create, last_derive, check_log, db_strict,
                   register_log, strategy_log, writer, push_log, scan_loop,
                   sched_loop, workers,
                   start_log, chain, purge_log>>

\* scanner.py: notify_new_signal_alert, then the next candidate
ScanNotify ==
    /\ scanner.pc = "notify"
    /\ pushes' = pushes \cup notify_new_signal_alert(scanner.base.visibility)
    /\ scanner' = AfterCreate
    /\ UNCHANGED <<now, users, signals, user_signals, referrals, next_oid, handler,
                   last_create, last_derive, check_log, db_strict, register_log,
                   strategy_log, writer, push_log, scan_loop, sched_loop, workers,
                   start_log, chain, purge_log>>

\* generate_user_signal, called by the view handler: the find_one
ViewFind ==
    /\ handler.pc = "show"
    /\ handler.list # <<>>
    /\ LET got == generate_user_signal(Head(handler.list), handler.user_id,
                                       next_oid, token_hex(next_oid))
       IN  handler' = IF got.inserted
                      THEN [handler EXCEPT !.pc = "insert"]
                      ELSE [handler EXCEPT !.list = Tail(@), !.shown = <<got.doc>>]
    /\ UNCHANGED <<now, users, signals, user_signals, referrals, next_oid, scanner,
                   pushes, last_create, last_derive, check_log, db_strict,
                   register_log, strategy_log, writer, push_log, scan_loop,
                   sched_loop, workers,
                   start_log, chain, purge_log>>

\* generate_user_signal, called by the view handler: the insert_one of the
\* record derived from the listed document
ViewInsert ==
    /\ handler.pc = "insert"
    /\ LET doc == Derive(Head(handler.list), handler.user_id, next_oid,
                         token_hex(next_oid))
       IN  /\ user_signals' = user_signals \cup {doc}
           /\ next_oid' = next_oid + 1
           /\ handler' = [handler EXCEPT !.pc = "show", !.list = Tail(@),
                                         !.shown = <<doc>>]
    /\ UNCHANGED <<now, users, signals, referrals, scanner, pushes, last_create,
                   last_derive, check_log, db_strict, register_log, strategy_log,
                   writer, push_log, scan_loop, sched_loop, workers,
                   start_log, chain, purge_log>>

\* the admin starts on the trial and is served every tier for as long as the
\* clock runs; the other subscribers start on a running premium plan
InitView ==
    /\ Init
    /\ \A u \in UserIds :
          users[u].plan = IF is_admin(u) THEN PLAN_FREE ELSE PLAN_PREMIUM

NextView ==
    \/ ScanGate
    \/ ScanCollect
    \/ ScanInsertBase
    \/ FanOutFind
    \/ FanOutInsert
    \/ FanOutReturn
    \/ ScanNotify
    \/ ScanWake
    \/ \E u \in UserIds : ViewStart(u)
    \/ ViewFind
    \/ ViewInsert
    \/ ViewReturn
    \/ Tick

SpecView == InitView /\ [][NextView]_vars

(***************************************************************************)
(* Properties of the signal pipeline                                       *)
(***************************************************************************)
Apart(a, b) == Abs(a.created_at - b.created_at)

SameTriple(a, b) ==
    a.symbol = b.symbol /\ a.direction = b.direction /\ a.visibility = b.visibility

\* is_plan_active(user) or is_trial_active(user), evaluated at the instant at
HadAccess(user, at) ==
    \/ (user.plan_end # None /\ user.plan_end >= at)
    \/ (user.trial_end # None /\ user.trial_end >= at)

\* C1, as stated: any two BaseSignals in the store, of any symbol, direction
\* or tier, were created at least TELEGRAM_SIGNAL_COOLDOWN_MINUTES apart.
C1_AnyTwoSignalsApart ==
    \A a, b \in signals :
        a.id # b.id => Apart(a, b) >= TELEGRAM_SIGNAL_COOLDOWN_MINUTES

\* C1, amended: the cooldown is tested once, at the top of a scan pass, and
\* the pass then creates up to three signals, of three symbols and three
\* tiers; any two BaseSignals that share the symbol or the tier (so come from
\* different passes) were created more than the cooldown apart.
C1_SameSymbolOrTierApart ==
    \A a, b \in signals :
        (a.id # b.id /\ (a.symbol = b.symbol \/ a.visibility = b.visibility))
            => Apart(a, b) > TELEGRAM_SIGNAL_COOLDOWN_MINUTES

\* two passes created signals: one symbol twice, in different tiers
C1_Witness ==
    \E a, b \in signals :
        /\ a.symbol = b.symbol
        /\ a.visibility # b.visibility
        /\ Apart(a, b) > TELEGRAM_SIGNAL_COOLDOWN_MINUTES

\* C2: a second BaseSignal for the identical (symbol, direction, tier) is
\* never created within DEDUP_MINUTES after the creation of the first.
C2_SameTripleApart ==
    \A a, b \in signals :
        (a.id # b.id /\ SameTriple(a, b)) => Apart(a, b) > DEDUP_MINUTES

\* the same triple was created twice
C2_Witness ==
    \E a, b \in signals : a.id # b.id /\ SameTriple(a, b)

\* C3, as stated: a call of create_base_signal made once more than
\* DEDUP_MINUTES have passed since the last BaseSignal of the same triple
\* persists and returns a BaseSignal.
C3_SucceedsAfterDedup ==
    (/\ last_create.at # None
     /\ last_create.prev_triple # None
     /\ last_create.at - last_create.prev_triple > DEDUP_MINUTES)
        => last_create.ok

\* C3, amended: a call of create_base_signal persists and returns a
\* BaseSignal exactly when more than TELEGRAM_SIGNAL_COOLDOWN_MINUTES have
\* passed since the last BaseSignal of the symbol (of any direction and
\* tier), or there is none; until then it returns the empty refusal.
C3_SucceedsAfterCooldown ==
    last_create.at # None =>
        (last_create.ok <=>
            (\/ last_create.prev_symbol = None
             \/ last_create.at - last_create.prev_symbol
                    > TELEGRAM_SIGNAL_COOLDOWN_MINUTES))

\* a second signal of a triple was created by a call after the cooldown
C3_Witness ==
    /\ last_create.ok
    /\ last_create.prev_triple # None
    /\ last_create.at - last_create.prev_triple > TELEGRAM_SIGNAL_COOLDOWN_MINUTES

\* C4, as stated: a call generate_user_signal(B, U) made while B's
\* valid_until has not passed, a record of the pair being stored, returns
\* that record and inserts nothing.
C4_IdempotentWithinValidUntil ==
    (/\ last_derive.at # None
     /\ last_derive.prior # {}
     /\ last_derive.at <= last_derive.valid_until)
        => (~last_derive.inserted /\ last_derive.doc \in last_derive.prior)

\* C4, amended: a call generate_user_signal(B, U) made while the stored
\* record of the pair has its telegram_valid_until ahead returns that record
\* and inserts nothing; a later call inserts a new record, which carries the
\* same derived prices as the stored ones.
C4_IdempotentWithinTelegramWindow ==
    last_derive.at # None =>
        /\ \A r \in last_derive.prior :
              r.telegram_valid_until > last_derive.at
                  => (~last_derive.inserted /\ last_derive.doc = r)
        /\ last_derive.inserted =>
              /\ last_derive.doc \notin last_derive.prior
              /\ \A r \in last_derive.prior :
                    /\ r.telegram_valid_until <= last_derive.at
                    /\ r.entry_price = last_derive.doc.entry_price
                    /\ r.profiles = last_derive.doc.profiles

\* a call found the live record of its pair and returned it
C4_Witness ==
    /\ last_derive.at # None
    /\ ~last_derive.inserted
    /\ last_derive.doc \in last_derive.prior
    /\ last_derive.doc.telegram_valid_until > last_derive.at

\* C5: the records derived for one subscriber from one BaseSignal (one
\* symbol, one valid_until) carry the same entry price and the same
\* stop-loss and take-profits in every profile, whichever path derived them.
C5_ReproducibleDerivation ==
    \A r, q \in user_signals :
        (r.user_id = q.user_id /\ r.symbol = q.symbol
            /\ r.valid_until = q.valid_until)
            => (r.entry_price = q.entry_price /\ r.profiles = q.profiles)

\* the tier T and subscriber U of the stated rule
C6_StatedRule(u, T) ==
    /\ has_access(users[u])
    /\ \/ (is_admin(u) /\ T = PLAN_PREMIUM)
       \/ (~is_admin(u) /\ users[u].plan = T)

\* C6, as stated: _eligible_users_for_alert(T) contains U iff U has access
\* and (U is an administrator and T is premium, or U is not and U's plan is T).
C6_EligibleIffAccessAndTier ==
    \A T \in Plans : \A u \in DOMAIN users :
        u \in _eligible_users_for_alert(T) <=> C6_StatedRule(u, T)

\* C6, amended: _eligible_users_for_alert(T) contains U iff U is an
\* administrator and T is premium (with or without access), or U is not an
\* administrator, has access and U's plan is T; and the pushes sent are to
\* exactly those users.
C6_EligibleIffAdminPremiumOrAccessAndTier ==
    /\ \A T \in Plans : \A u \in DOMAIN users :
          u \in _eligible_users_for_alert(T) <=>
              \/ (is_admin(u) /\ T = PLAN_PREMIUM)
              \/ (~is_admin(u) /\ has_access(users[u]) /\ users[u].plan = T)
    /\ \A s \in signals : \A u \in DOMAIN users :
          [user_id |-> u, visibility |-> s.visibility, at |-> s.created_at]
                  \in pushes <=>
              \/ (is_admin(u) /\ s.visibility = PLAN_PREMIUM)
              \/ (/\ ~is_admin(u)
                  /\ HadAccess(users[u], s.created_at)
                  /\ users[u].plan = s.visibility)

\* an administrator whose plan ran out was sent a premium push
C6_Witness ==
    \E p \in pushes :
        /\ is_admin(p.user_id)
        /\ p.visibility = PLAN_PREMIUM
        /\ ~HadAccess(users[p.user_id], p.at)

\* C7: no plus-tier or free-tier push is sent to an administrator.
C7_AdminOnlyPremiumPush ==
    \A p \in pushes : is_admin(p.user_id) => p.visibility = PLAN_PREMIUM

\* a plus-tier signal was pushed while an administrator held a running plus
\* plan, and a free-tier one after that plan ran out
C7_Witness ==
    \E a \in ADMIN_USER_IDS \cap DOMAIN users :
        /\ users[a].plan = PLAN_PLUS
        /\ \E s \in signals :
              s.visibility = PLAN_PLUS /\ HadAccess(users[a], s.created_at)
        /\ \E s \in signals :
              s.visibility = PLAN_FREE /\ ~HadAccess(users[a], s.created_at)

\* C8: a subscriber who is no administrator and has neither a running plan
\* nor a running trial is sent no push, and a view-signals request of theirs
\* ends in the access-expired notice with no signal shown.
C8_NoAccessNothing ==
    /\ \A p \in pushes :
          ~is_admin(p.user_id) => HadAccess(users[p.user_id], p.at)
    /\ (/\ handler.pc # "idle"
        /\ ~is_admin(handler.user_id)
        /\ ~HadAccess(handler.user, handler.checked_at))
            => (handler.pc = "denied" /\ handler.shown = <<>>)

\* a subscriber whose access ran out asks for the signals while a signal of
\* their tier, created after that, is live and derived for them
C8_Witness ==
    /\ handler.pc = "denied"
    /\ \E s \in signals : \E r \in user_signals :
          /\ s.visibility = handler.user.plan
          /\ ~HadAccess(handler.user, s.created_at)
          /\ r.signal_id = s.id
          /\ r.user_id = handler.user_id
          /\ r.telegram_valid_until > now

(***************************************************************************)
(* Properties of the referral machine                                      *)
(***************************************************************************)
\* the referred users a referrer has records of
ReferredOf(referrer_id) ==
    {d \in DOMAIN users :
        \E rec \in referrals :
            rec.referrer_id = referrer_id /\ rec.referred_id = d}

\* C9: whatever number of register_valid_referral calls are made for a
\* referred user (the call inside activate_plus / activate_premium, the
\* handler's extra call, re-activations), the referrer's live counters and
\* historical counters count that user at most once: neither sum exceeds the
\* number of referred users on record, and a pair has one record.
C9_CountedAtMostOnce ==
    /\ \A r \in DOMAIN users :
          /\ users[r].ref_plus_valid + users[r].ref_premium_valid
                <= Cardinality(ReferredOf(r))
          /\ Total(users[r].ref_plus_total) + Total(users[r].ref_premium_total)
                <= Cardinality(ReferredOf(r))
    /\ \A a, b \in referrals :
          (a.referrer_id = b.referrer_id /\ a.referred_id = b.referred_id)
              => a = b

\* a referred user was counted and then activated once more
C9_Witness ==
    \E rec \in referrals :
        /\ Total(users[rec.referrer_id].ref_plus_total)
              + Total(users[rec.referrer_id].ref_premium_total) = 1
        /\ users[rec.referred_id].plan_end # None
        /\ users[rec.referred_id].plan_end
              > rec.activated_at + PLAN_DURATION_DAYS * DayMinutes

\* C10: check_ref_rewards on a referrer on tier free with premium_valid = 5
\* leaves the referrer on premium with a plan ending 30 days from now and
\* premium_valid = 0; from premium_valid = 7 it leaves premium_valid = 2.
C10_RewardLadder ==
    (check_log.at # None /\ check_log.before.plan = PLAN_FREE) =>
        /\ check_log.before.ref_premium_valid = 5 =>
              /\ check_log.after.plan = PLAN_PREMIUM
              /\ check_log.after.plan_end
                    = check_log.at + PLAN_DURATION_DAYS * DayMinutes
              /\ check_log.after.ref_premium_valid = 0
        /\ check_log.before.ref_premium_valid = 7 =>
              check_log.after.ref_premium_valid = 2

\* the threshold table of check_ref_rewards, read on the referrer's document
ThresholdMet(doc) ==
    \/ doc.ref_premium_valid >= 5
    \/ doc.ref_plus_valid >= (IF doc.plan = PLAN_PREMIUM THEN 10 ELSE 5)

\* C11: when check_ref_rewards applies a reward, the consumed live counter of
\* the referrer's document is lower by exactly the threshold (5, or 10 for
\* plus referrals of a premium referrer) once the call has returned, the
\* other live counter and both historical counters being unchanged.
C11_ConsumedByThreshold ==
    check_log.applied =>
        LET before == check_log.before
            after == check_log.after
        IN  /\ before.ref_premium_valid >= 5 =>
                  /\ after.ref_premium_valid = before.ref_premium_valid - 5
                  /\ after.ref_plus_valid = before.ref_plus_valid
            /\ before.ref_premium_valid < 5 =>
                  /\ after.ref_plus_valid = before.ref_plus_valid
                        - (IF before.plan = PLAN_PREMIUM THEN 10 ELSE 5)
                  /\ after.ref_premium_valid = before.ref_premium_valid
            /\ Total(after.ref_plus_total) = Total(before.ref_plus_total)
            /\ Total(after.ref_premium_total) = Total(before.ref_premium_total)

\* C12: check_ref_rewards applies a reward whose threshold is met exactly
\* when the referrer has a running paid plan or a running trial; a referrer
\* with neither keeps its document as it was, a referrer on trial only
\* (tier free) whose counter meets a threshold is rewarded.
C12_RewardIffAccess ==
    check_log.at # None =>
        /\ check_log.applied <=>
              (HadAccess(check_log.before, check_log.at)
                  /\ ThresholdMet(check_log.before))
        /\ ~HadAccess(check_log.before, check_log.at) =>
              check_log.after = check_log.before

\* C13: after check_ref_rewards has applied a reward the referrer's tier and
\* plan_end are those of the ladder row for the referrer's tier, the premium
\* count tested first: free or plus with premium_valid >= 5 is on premium,
\* free with plus_valid >= 5 is on plus, every other row keeps the tier and
\* has plan_end later by exactly 30 days.
C13_LadderOutcome ==
    check_log.applied =>
        LET before == check_log.before
            after == check_log.after
            activated_end ==
                IF before.plan_end # None /\ before.plan_end > check_log.at
                THEN before.plan_end + PLAN_DURATION_DAYS * DayMinutes
                ELSE check_log.at + PLAN_DURATION_DAYS * DayMinutes
        IN  IF before.plan # PLAN_PREMIUM /\ before.ref_premium_valid >= 5
            THEN after.plan = PLAN_PREMIUM /\ after.plan_end = activated_end
            ELSE IF before.plan = PLAN_FREE
            THEN after.plan = PLAN_PLUS /\ after.plan_end = activated_end
            ELSE /\ after.plan = before.plan
                 /\ after.plan_end = before.plan_end + 30 * DayMinutes

\* C14: a call of check_ref_rewards for a referrer, the activation it
\* performs as the reward included, changes no document of another user and
\* inserts no referral record.
C14_CascadeBounded ==
    [][\A referrer_id \in DOMAIN users :
          CheckRewards(referrer_id) =>
              /\ referrals' = referrals
              /\ \A u \in DOMAIN users \ {referrer_id} : users'[u] = users[u]]_vars

\* a reward was applied through activate_premium to a referrer who has a
\* referrer of its own
C14_Witness ==
    /\ check_log.applied
    /\ check_log.before.referred_by # None
    /\ check_log.before.plan = PLAN_PLUS
    /\ check_log.before.ref_premium_valid >= 5

(***************************************************************************)
(* Properties of register_valid_referral and of the activations            *)
(***************************************************************************)
\* the referrer the logged call read from the referred user's document
LoggedReferrer ==
    register_log.before.users[register_log.referred_user_id].referred_by

\* one of the guards of steps 1 to 5 refuses the logged call
RegisterRefused ==
    \/ register_log.referred_user_id \notin DOMAIN register_log.before.users
    \/ LoggedReferrer = None
    \/ LoggedReferrer = register_log.referred_user_id
    \/ LoggedReferrer \notin DOMAIN register_log.before.users
    \/ \E rec \in register_log.before.referrals :
          /\ rec.referrer_id = LoggedReferrer
          /\ rec.referred_id = register_log.referred_user_id

\* C17: register_valid_referral returns False and leaves users and referrals
\* as they were when the referred user is not stored, has no referrer, is its
\* own referrer, has a referrer that is not stored, or already has a record
\* for the pair.
C17_RefusedLeavesStore ==
    (register_log.at # None /\ RegisterRefused) =>
        /\ ~register_log.ok
        /\ register_log.after = register_log.before

\* a call for a pair that already has its record was refused
C17_Witness ==
    /\ register_log.at # None
    /\ ~register_log.ok
    /\ register_log.referred_user_id \in DOMAIN register_log.before.users
    /\ \E rec \in register_log.before.referrals :
          /\ rec.referrer_id = LoggedReferrer
          /\ rec.referred_id = register_log.referred_user_id

\* C18: a call of register_valid_referral that no guard refuses returns True,
\* leaves exactly one new record, of the pair, and the referrer's live and
\* historical counter of the activated tier each higher by 1.
C18_RegisteredAndCounted ==
    (register_log.at # None /\ ~RegisterRefused) =>
        LET before == register_log.before.users[LoggedReferrer]
            after == register_log.after.users[LoggedReferrer]
            added == register_log.after.referrals \ register_log.before.referrals
        IN  /\ register_log.ok
            /\ register_log.before.referrals \subseteq register_log.after.referrals
            /\ Cardinality(added) = 1
            /\ \A rec \in added :
                  /\ rec.referrer_id = LoggedReferrer
                  /\ rec.referred_id = register_log.referred_user_id
            /\ IF register_log.activated_plan = PLAN_PLUS
               THEN /\ after.ref_plus_valid = before.ref_plus_valid + 1
                    /\ Total(after.ref_plus_total) = Total(before.ref_plus_total) + 1
               ELSE /\ after.ref_premium_valid = before.ref_premium_valid + 1
                    /\ Total(after.ref_premium_total)
                          = Total(before.ref_premium_total) + 1

\* C15: an activation of a stored user for a tier leaves the user on that
\* tier with no trial, the plan ending PLAN_DURATION_DAYS after the old
\* plan_end if that lies in the future, and PLAN_DURATION_DAYS from now
\* otherwise.
C15_ActivateExtendsOrStarts ==
    [][\A target_user_id \in DOMAIN users : \A plan \in {PLAN_PLUS, PLAN_PREMIUM} :
          AdminActivate(target_user_id, plan) =>
              LET before == users[target_user_id]
                  after == users'[target_user_id]
              IN  /\ after.plan = plan
                  /\ after.trial_end = None
                  /\ after.plan_end =
                        IF before.plan_end # None /\ before.plan_end > now
                        THEN before.plan_end + PLAN_DURATION_DAYS * DayMinutes
                        ELSE now + PLAN_DURATION_DAYS * DayMinutes]_vars

\* one user was activated while the plan was running (the plan now ends more
\* than one duration from now), another after the plan had run out
C15_Witness ==
    \E u, v \in DOMAIN users :
        /\ users[u].trial_end = None
        /\ users[u].plan_end # None
        /\ users[u].plan_end > now + PLAN_DURATION_DAYS * DayMinutes
        /\ now > 0
        /\ users[v].trial_end = None
        /\ users[v].plan_end = now + PLAN_DURATION_DAYS * DayMinutes

\* C16: one run of check_expired_plans changes only users whose plan_end had
\* passed and whose tier was not free, resets each of them to free with no
\* plan_end, changes at most BATCH_SIZE users, and leaves every user whose
\* plan_end is None or has not passed as it was.
C16_SweepResetsExpiredBatch ==
    [][ExpireSweep =>
          LET changed == {u \in DOMAIN users : users'[u] # users[u]}
          IN  /\ DOMAIN users' = DOMAIN users
              /\ Cardinality(changed) <= BATCH_SIZE
              /\ \A u \in changed :
                    /\ users[u].plan_end # None
                    /\ users[u].plan_end < now
                    /\ users[u].plan # PLAN_FREE
                    /\ users'[u] = [users[u] EXCEPT !.plan = PLAN_FREE,
                                                    !.plan_end = None]
              /\ \A u \in DOMAIN users :
                    (users[u].plan_end = None \/ users[u].plan_end >= now)
                        => users'[u] = users[u]]_vars

\* a run has reset one user whose plan had run out and, the batch being
\* full, left another such user for the next run
C16_Witness ==
    \E u, v \in DOMAIN users :
        /\ users[u].plan = PLAN_FREE
        /\ users[u].plan_end = None
        /\ users[u].trial_end = None
        /\ users[v].plan # PLAN_FREE
        /\ users[v].plan_end # None
        /\ users[v].plan_end < now

(***************************************************************************)
(* Properties of the ranking and of the candidate count test               *)
(***************************************************************************)
\* position of a candidate in the order of the scan
ScanPosition(c) ==
    CHOOSE i \in 1..Len(scanner.candidates) : scanner.candidates[i] = c

\* a ranks before b: higher score, or equal score and scanned earlier
RanksBefore(a, b) ==
    \/ a.score > b.score
    \/ (a.score = b.score /\ ScanPosition(a) < ScanPosition(b))

\* C19: a pass with at least 3 candidates attempts a signal for the 3
\* highest-scoring candidates and for no other, equal scores ranking in the
\* order of the scan; the three are of distinct symbols, the first is
\* created as premium, the second as plus, the third as free.
C19_TopThreeByRank ==
    /\ [](scanner.pc = "create" =>
            LET candidates == {scanner.candidates[i] :
                                  i \in 1..Len(scanner.candidates)}
                top == {scanner.top_3[i] : i \in 1..Len(scanner.top_3)}
            IN  /\ Len(scanner.top_3) = 3
                /\ top \subseteq candidates
                /\ \A i, j \in 1..3 :
                      i < j =>
                          /\ scanner.top_3[i].symbol # scanner.top_3[j].symbol
                          /\ RanksBefore(scanner.top_3[i], scanner.top_3[j])
                /\ \A c \in candidates \ top : \A t \in top : RanksBefore(t, c))
    /\ [][/\ scanner.pc = "create" /\ scanner' # scanner =>
               /\ last_create'.at = now
               /\ last_create'.symbol = scanner.top_3[scanner.idx].symbol
               /\ last_create'.direction = scanner.top_3[scanner.idx].direction
               /\ last_create'.visibility = plan_map[scanner.idx]
               /\ scanner.idx < 3 => scanner'.idx = scanner.idx + 1
               /\ scanner.idx = 3 => scanner'.pc = "sleep"
          /\ signals' # signals =>
               /\ scanner.pc = "create"
               /\ signals \subseteq signals'
               /\ \A s \in signals' \ signals :
                     /\ s.symbol = scanner.top_3[scanner.idx].symbol
                     /\ s.direction = scanner.top_3[scanner.idx].direction
                     /\ s.visibility = plan_map[scanner.idx]]_vars

\* a pass that found four candidates, ranked a later one first and left one
\* with the score of the third out, has created premium and plus and is
\* about to create free
C19_Witness ==
    /\ scanner.pc = "create"
    /\ scanner.idx = 3
    /\ Len(scanner.candidates) = 4
    /\ scanner.top_3[1] # scanner.candidates[1]
    /\ \E i \in 1..4 :
          /\ \A j \in 1..3 : scanner.top_3[j] # scanner.candidates[i]
          /\ scanner.candidates[i].score = scanner.top_3[3].score
    /\ \E s \in signals :
          /\ s.created_at >= scanner.started_at
          /\ s.symbol = scanner.top_3[2].symbol
          /\ s.visibility = PLAN_PLUS

\* C20: a pass that finds fewer than 3 candidates is skipped: the loop over
\* the top 3 is entered only with at least 3 candidates, and a skipped pass
\* has created no BaseSignal, fanned out no SubscriberSignal and sent no
\* push since it began.
C20_FewCandidatesSkipped ==
    /\ scanner.pc = "create" => Len(scanner.candidates) >= 3
    /\ (scanner.pc = "sleep" /\ scanner.started_at # None) =>
          /\ Len(scanner.candidates) < 3
          /\ \A s \in signals : s.created_at < scanner.started_at
          /\ \A p \in pushes : p.at < scanner.started_at
          /\ \A r \in user_signals :
                (\E s \in signals : s.id = r.signal_id)
                    => r.created_at < scanner.started_at

\* a pass that the cooldown let through found two candidates and was
\* skipped, signals of an earlier pass being stored
C20_Witness ==
    /\ scanner.pc = "sleep"
    /\ scanner.started_at # None
    /\ Len(scanner.candidates) = 2
    /\ signals # {}

(***************************************************************************)
(* C21: whatever rows it is given, mtf_strategy returns None or a          *)
(* candidate whose score lies in [0, 100], and it returns None whenever    *)
(* the 1h trend filter (ADX at least 25 and a close strictly on one side   *)
(* of the EMA), the 15m confirmation (ADX at least 25) or the 5m trigger   *)
(* (a breakout with volume, or a pullback) fails.                          *)
(***************************************************************************)
TrendFilterFails(last) ==
    \/ ~(last.adx # NaN /\ last.adx >= ADX_MIN_TREND)
    \/ last.close = NaN \/ last.ema_200 = NaN \/ last.close = last.ema_200

ConfirmationFails(last) == ~(last.adx # NaN /\ last.adx >= ADX_MIN_TREND)

TriggerFails(last, long) ==
    LET known(x) == x # NaN
        volume_ok == ~(known(last.vol_ma) /\ 2 * last.volume < 3 * last.vol_ma)
        breakout == /\ volume_ok
                    /\ IF long THEN known(last.bb_high) /\ last.close > last.bb_high
                       ELSE known(last.bb_low) /\ last.close < last.bb_low
        pullback == /\ known(last.bb_mid) /\ known(last.ema_200) /\ known(last.adx)
                    /\ last.adx >= ADX_MIN_TREND
                    /\ IF long
                       THEN last.close >= last.bb_mid /\ last.close > last.ema_200
                       ELSE last.close <= last.bb_mid /\ last.close < last.ema_200
    IN  ~(breakout \/ pullback)

C22_ValidityAlwaysSet ==
    \A s \in signals : s.valid_until # None /\ s.telegram_valid_until # None

(***************************************************************************)
(* C24: a run of the send loop attempts the send for every eligible        *)
(* recipient, whichever sends raised before, and a step of a delayed       *)
(* deletion, failed or not, changes nothing of the loop: not its position, *)
(* its recipients, what it attempted or what it sent.                      *)
(***************************************************************************)
C24_SendsIndependent ==
    /\ [](push_log.pc = "done" => push_log.attempted = push_log.user_ids)
    /\ [][(push_log'.tasks # push_log.tasks /\ push_log'.tasks \subseteq push_log.tasks)
             => /\ push_log'.pc = push_log.pc
                /\ push_log'.i = push_log.i
                /\ push_log'.user_ids = push_log.user_ids
                /\ push_log'.attempted = push_log.attempted
                /\ push_log'.sent = push_log.sent]_vars

\* the first send raised, the later ones were made and delivered, and a
\* deletion has failed
C24_Witness ==
    /\ push_log.pc = "done"
    /\ Len(push_log.user_ids) = NumPushUsers
    /\ push_log.user_ids[1] \notin push_log.sent
    /\ \A k \in 2..Len(push_log.user_ids) : push_log.user_ids[k] \in push_log.sent
    /\ push_log.undeleted # {}

(***************************************************************************)
(* C25: no failure ends the scan loop.  A symbol whose fetch or evaluation *)
(* raised does not stop the pass: the pass goes on in scan order and,      *)
(* once over, has processed every symbol.  Any other failure of a cycle    *)
(* leads to the backoff sleep, and the only step out of a sleep starts a   *)
(* new cycle.                                                              *)
(***************************************************************************)
C25_LoopSurvivesFailures ==
    /\ [](scan_loop.pc \in {"gate", "symbols", "create", "sleep"})
    /\ [](scan_loop.pc = "symbols" =>
             /\ Len(scan_loop.processed) = scan_loop.idx - 1
             /\ \A i \in 1..Len(scan_loop.processed) :
                   scan_loop.processed[i] = Symbols[i])
    /\ [](scan_loop.pc = "create" => scan_loop.processed = Symbols)
    /\ [](scan_loop.pc = "sleep" =>
             scan_loop.processed = <<>> \/ scan_loop.processed = Symbols)
    /\ [](scan_loop.raised =>
             scan_loop.pc = "sleep" /\ scan_loop.minutes = SCAN_ERROR_SLEEP_MINUTES)
    /\ [][scan_loop.pc = "sleep" => scan_loop' = AtGate(scan_loop.cycle + 1)]_vars

\* a symbol raised, the pass still covered every symbol and found three
\* candidates, then a creation raised and the loop is in its backoff sleep
C25_Witness ==
    /\ scan_loop.pc = "sleep"
    /\ scan_loop.raised
    /\ scan_loop.failed # {}
    /\ scan_loop.processed = Symbols
    /\ Len(scan_loop.candidates) >= MIN_CANDIDATES

(***************************************************************************)
(* C26: the maintenance loop is running, pausing, or ended by a            *)
(* cancellation and by nothing else.  A failed iteration leaves it in a    *)
(* pause, and a pause is followed by the next iteration.  A successful     *)
(* iteration sets errors_in_row to 0; the fifth failure in a row takes the *)
(* pause of 60 s, after which the counter is 0 again; the counter never    *)
(* exceeds 5.                                                              *)
(***************************************************************************)
C26_LoopCountsAndSurvives ==
    /\ [](sched_loop.pc \in {"run", "pause", "ended"})
    /\ [](sched_loop.errors_in_row \in 0..max_errors_in_row)
    /\ [](sched_loop.pc = "ended" => sched_loop.cancelled)
    /\ [](sched_loop.errors_in_row = max_errors_in_row =>
             sched_loop.pc # "run" /\ sched_loop.seconds = 60)
    /\ [][sched_loop.pc = "run" /\ ~sched_loop'.cancelled
             => sched_loop'.pc = "pause"]_vars
    /\ [][sched_loop.pc = "pause" /\ ~sched_loop'.cancelled
             => sched_loop'.pc = "run"]_vars
    /\ [][sched_loop'.iteration # sched_loop.iteration
             => sched_loop'.errors_in_row = 0]_vars
    /\ [][sched_loop.errors_in_row = max_errors_in_row /\ sched_loop'.pc = "run"
             => sched_loop'.errors_in_row = 0]_vars

\* after some successful iterations, five failures in a row: the extended pause
C26_Witness ==
    /\ sched_loop.pc = "pause"
    /\ sched_loop.iteration > 0
    /\ sched_loop.errors_in_row = max_errors_in_row
    /\ sched_loop.seconds = 60

(***************************************************************************)
(* C27: the levels of a created BaseSignal are fixed functions of its      *)
(* entry E, to the 4 decimals of a price: LONG has stop-loss 0.99 E and    *)
(* take-profits 1.01 E and 1.02 E, SHORT has stop-loss 1.01 E and          *)
(* take-profits 0.99 E and 0.98 E, the entry zone is [0.9985 E, 1.0015 E]; *)
(* a LONG at 50000 has 49500, [50500, 51000] and [49925, 50075].           *)
(***************************************************************************)
\* x is num / den of entry, to the nearest unit: with whole and rest the
\* quotient and the remainder of num * entry by den
IsScaled(x, num, den, entry) ==
    LET whole == (entry \div den) * num + ((entry % den) * num) \div den
        rest == ((entry % den) * num) % den
    IN  \/ x = whole /\ 2 * rest <= den
        \/ x = whole + 1 /\ 2 * rest >= den

C29_TrialExcludesPlan ==
    \A u \in DOMAIN users : ~(is_trial_active(users[u]) /\ is_plan_active(users[u]))

(***************************************************************************)
(* C23: when two activations that ran at once have both finished, the      *)
(* store is the one some serial order of the two would have left: no       *)
(* activation, counter increment or reward consumption is lost.            *)
(***************************************************************************)
C23_AsIfSerial ==
    (\A w \in WorkerIds : workers[w].pc = "done") =>
        LET start == register_log.before
            one == workers[1]
            two == workers[2]
        IN  Store \in
              {menu_activation(menu_activation(start, one.target, one.plan),
                               two.target, two.plan),
               menu_activation(menu_activation(start, two.target, two.plan),
                               one.target, one.plan)}

C30_OneRecordPerPair ==
    \A r1 \in referrals : \A r2 \in referrals :
        (r1.referrer_id = r2.referrer_id /\ r1.referred_id = r2.referred_id)
            => r1 = r2

(***************************************************************************)
(* Properties of first contact                                             *)
(***************************************************************************)
\* C31: the referrer of a stored user is the one written when /start created
\* the user's document; no step (a later /start with another code, an
\* activation with its referral registration and rewards, a reward check,
\* the expiry sweep) changes it or removes the user.
C31_ReferrerNeverChanges ==
    [][\A u \in DOMAIN users :
          /\ u \in DOMAIN users'
          /\ users'[u].referred_by = users[u].referred_by]_vars

\* a stored user sent /start again with the code of another stored user that
\* is not its referrer
C31_Witness ==
    /\ start_log.user_id # None
    /\ start_log.existing_user
    /\ start_log.ref_user_id \in DOMAIN users
    /\ start_log.ref_user_id # start_log.user_id
    /\ users[start_log.user_id].referred_by # start_log.ref_user_id

FanOutRule(u, T) ==
    /\ has_access(users[u])
    /\ \/ (is_admin(u) /\ T = PLAN_PREMIUM)
       \/ users[u].plan = T

\* C33: when create_base_signal persists a BaseSignal of tier T, its fan-out
\* inserts a SubscriberSignal of that signal for a user who holds no live
\* record of the symbol if and only if the user has current access and is an
\* administrator with T = premium or has plan tier T; it inserts none for a
\* user who holds a live record.
C33_FanOutFollowsRule ==
    [][\A base \in signals' \ signals : \A u \in DOMAIN users :
          (\E r \in user_signals' \ user_signals :
              r.user_id = u /\ r.signal_id = base.id)
          <=> (LiveUserSignals(u, base.symbol) = {}
                  /\ FanOutRule(u, base.visibility))]_vars

GateAnswers ==
    [telegram |-> [symbol \in {"", "BTCUSDT", "ETHUSDT"} |->
                      telegram_signal_blocked(symbol)],
     duplicate |-> [in \in ApiInputs |->
                      recent_duplicate_exists(in[1], in[2], in[3])],
     cached |-> [u \in UserIds |-> [symbol \in {"BTCUSDT", "ETHUSDT"} |->
                      LiveUserSignals(u, symbol) # {}]]]

\* C35: a run of cleanup_old_signals deletes only BaseSignals created more
\* than 7 days and SubscriberSignals created more than 3 days before the
\* run; every deleted document's valid_until and telegram_valid_until lie in
\* the past, and the run changes no answer of the dedup test, of the
\* cooldown test or of the per-user cache test.
C35_PurgeOnlyClosedWindows ==
    /\ [](purge_log.at # None =>
            /\ \A s \in purge_log.signals :
                  /\ s.created_at < purge_log.at - 7 * 1440
                  /\ s.valid_until < purge_log.at
                  /\ s.telegram_valid_until < purge_log.at
            /\ \A r \in purge_log.user_signals :
                  /\ r.created_at < purge_log.at - 3 * 1440
                  /\ r.valid_until < purge_log.at
                  /\ r.telegram_valid_until < purge_log.at)
    /\ [][purge_log' # purge_log => GateAnswers' = GateAnswers]_vars

\* a run deleted a BaseSignal and a SubscriberSignal and kept a younger
\* BaseSignal
C35_Witness ==
    /\ purge_log.at # None
    /\ purge_log.signals # {}
    /\ purge_log.user_signals # {}
    /\ signals # {}

(***************************************************************************)
(* Properties of the maintenance loop's sweep                              *)
(***************************************************************************)
\* C36: with the sweep taken fairly and no failing database call, a user
\* whose paid plan_end has passed is eventually on plan free with no
\* plan_end, or has been activated again in the meantime, also when more
\* users are expired than one sweep resets.
C36_ExpiredEventuallyFree ==
    \A u \in ExpiryUserIds :
        (u \in ExpiredUsers(users))
            ~> \/ (users[u].plan = PLAN_FREE /\ users[u].plan_end = None)
               \/ (users[u].plan_end # None /\ users[u].plan_end >= now)

\* one sweep has reset a user while more users than one sweep resets are
\* still expired
C36_Witness ==
    /\ Cardinality(ExpiredUsers(users)) > BATCH_SIZE
    /\ \E u \in ExpiryUserIds :
          /\ users[u].plan = PLAN_FREE
          /\ users[u].plan_end = None
          /\ users[u].trial_end = None

(***************************************************************************)
(* Properties of the activation cascade                                    *)
(***************************************************************************)
\* C37: an activation returns: the calls it sets off (registration, reward
\* check, activation of the referrer, and so on) all come back and the call
\* stack empties, for every shape of the referred_by links, cycles included,
\* and the nesting never exceeds three calls (activation, registration,
\* reward check) per user.
C37_ActivationTerminates ==
    /\ <>(chain.stack = <<>>)
    /\ [](Len(chain.stack) <= 3 * NumChainUsers)

\* an activation has returned after its cascade registered every user with
\* its referrer, which takes a cycle of links
C37_Witness ==
    /\ chain.pc = "done"
    /\ ~db_strict
    /\ \A u \in DOMAIN users :
          /\ users[u].referred_by # None
          /\ users[u].referred_by # u
          /\ \E rec \in referrals :
                /\ rec.referred_id = u
                /\ rec.referrer_id = users[u].referred_by

(***************************************************************************)
(* Properties of a failed registration                                     *)
(***************************************************************************)
\* C38: when register_valid_referral returns False on a call that none of
\* its precondition tests refused, the referrals collection holds no record
\* of the pair (referrer, referred) afterwards.
C38_FailedLeavesNoRecord ==
    (register_log.at # None /\ ~RegisterRefused /\ ~register_log.ok) =>
        ~\E rec \in register_log.after.referrals :
            /\ rec.referrer_id = LoggedReferrer
            /\ rec.referred_id = register_log.referred_user_id

(***************************************************************************)
(* Properties of the push that follows a creation                          *)
(***************************************************************************)
\* C39: in the scan loop every call of create_base_signal persists its
\* BaseSignal (it never returns the empty result there), and every push that
\* was sent is for a tier whose BaseSignal was stored at that same instant
\* of the pass; no push is sent for a creation that was refused.
C39_PushFollowsPersistedSignal ==
    /\ last_create.at # None => last_create.ok
    /\ \A p \in pushes :
          \E s \in signals :
             /\ s.visibility = p.visibility
             /\ s.created_at = p.at

\* a pass has stored a BaseSignal and sent a push for its tier at that instant
C39_Witness ==
    /\ last_create.at # None
    /\ last_create.ok
    /\ \E p \in pushes :
          /\ p.at = last_create.at
          /\ p.visibility = last_create.visibility
          /\ \E s \in signals :
                /\ s.symbol = last_create.symbol
                /\ s.visibility = p.visibility
                /\ s.created_at = p.at

(***************************************************************************)
(* Properties of the records of one subscriber and symbol                  *)
(***************************************************************************)
\* C40: whatever the interleaving of the fan-out's and the view handler's
\* store operations, there is at most one SubscriberSignal per (subscriber,
\* symbol) whose telegram_valid_until is in the future, and a record stays
\* the single answer for its subscriber and symbol for as long as it is
\* live: nothing derived from a newer BaseSignal hides or replaces it.
C40_OneLivePerSubscriberSymbol ==
    /\ [](\A r, q \in user_signals :
            (/\ r.user_id = q.user_id
             /\ r.symbol = q.symbol
             /\ r.telegram_valid_until > now
             /\ q.telegram_valid_until > now) => r = q)
    /\ [][\A r \in user_signals :
            r.telegram_valid_until > now' =>
                LiveUserSignals(r.user_id, r.symbol)' = {r}]_vars

\* a subscriber holds a live record of a symbol next to an older record of
\* the same symbol, derived from an earlier BaseSignal
C40_Witness ==
    \E r, q \in user_signals :
        /\ r.user_id = q.user_id
        /\ r.symbol = q.symbol
        /\ r.telegram_valid_until > now
        /\ q.telegram_valid_until <= now
        /\ \E s, t \in signals :
              /\ s.id = r.signal_id
              /\ t.id = q.signal_id
              /\ s.symbol = t.symbol
              /\ t.created_at < s.created_at

====
